---------------------------- MODULE Spec2Model ----------------------------
(***************************************************************************)
(* State-machine model of the control-plane orchestrator                   *)
(* (src/control-plane/orchestrator_enhanced.py): the CircuitBreaker class  *)
(* and the ControlPlaneOrchestrator API.                                   *)
(*                                                                         *)
(* Several specifications share the definitions:                           *)
(*   SpecCB  one CircuitBreaker with arbitrary constructor arguments,      *)
(*           driven by record_success / record_failure / can_execute and   *)
(*           the clock;                                                    *)
(*   Spec    one ControlPlaneOrchestrator driven through its registry     *)
(*           and health API (register/start/stop workflow, health_check,   *)
(*           get_system_status) and the clock;                             *)
(*   SpecRec one ControlPlaneOrchestrator running auto_recover             *)
(*           coroutines, which suspend at every recovery step.             *)
(*   SpecHist auto_recover on long recovery histories, with restarts;      *)
(*   SpecSnap the registry and health API with _save_state followed by a   *)
(*           new ControlPlaneOrchestrator on the same state file;          *)
(*   SpecLife start(), the monitor task, signals and graceful_shutdown on  *)
(*           one event loop; SpecLifeFair adds the loop's fairness;        *)
(*   SpecMon the monitor task alone over many iterations.                  *)
(*   SpecConc concurrent callers of the whole control API, auto_recover    *)
(*           coroutines included;                                          *)
(*   SpecStatus get_system_status on histories around ten events;          *)
(*   SpecPersist the registry, shutdown and construction on a disk whose   *)
(*           writes may fail;                                              *)
(*   SpecCBRead SpecCB with get_state calls;                               *)
(*   SpecMonLive the monitor loop started with a tripped breaker, and      *)
(*           SpecMonLiveFair with the event loop's fairness;               *)
(*   SpecLate SpecLife with callers that register and start workflows      *)
(*           during and after a shutdown;                                  *)
(*   SpecEngine a RevenueStream, the webhook listener and the shutdown of  *)
(*           the QuantumRevenueEngine                                      *)
(*           (src/autonomous-orchestrator/                                 *)
(*           quantum-revenue-engine-enhanced.py).                          *)
(* Time is in whole seconds.  datetime.now() is the variable now.          *)
(***************************************************************************)
EXTENDS Integers, Sequences, FiniteSets, TLC

VARIABLES
    now,               \* datetime.now(), whole seconds since construction
    ticks,             \* number of clock advances so far (bounds the clock)
    call,              \* the last API call: its name, argument, result
    cb,                \* SpecCB: the CircuitBreaker under test
    consec,            \* SpecCB: record_failure calls since the last record_success
    run,               \* SpecCB: record_success calls made from a HALF_OPEN state
    workflows,         \* Spec: self.workflows
    circuit_breakers,  \* Spec: self.circuit_breakers
    health_status,     \* Spec: self.health_status
    recovery_history,  \* Spec: self.recovery_history
    metrics,           \* Spec: self.metrics
    state_file,        \* Spec: the pickled snapshot on disk
    recoveries,        \* Spec: the auto_recover coroutines started so far
    starts,            \* Spec: start_workflow calls that returned True, per id
    log,               \* every RecoveryEvent appended so far, in append order
    recovered,         \* auto_recover calls made by API callers so far
    restarts,          \* orchestrators constructed on state_file after the first
    is_running,        \* self.is_running
    shutdown_event,    \* self.shutdown_event.is_set()
    tasks,             \* self.tasks
    monitor,           \* the task running monitor_all_services
    shutdowns,         \* the graceful_shutdown calls made so far
    starter,           \* where start() is
    rounds,            \* iterations the monitor loop may still begin
    build,             \* what the interpreter makes of CancelledError, and
                       \* what the disk does at the next write
    stream,            \* SpecEngine: a RevenueStream of the engine
    stream_task,       \* SpecEngine: the task running process_stream on it
    engine_is_running, \* SpecEngine: QuantumRevenueEngine.is_running
    webhook_queue,     \* SpecEngine: self.webhook_queue
    listener,          \* SpecEngine: the task running payment_webhook_listener
    engine_shutdown    \* SpecEngine: where graceful_shutdown() of the engine is

vars == << now, ticks, call, cb, consec, run, workflows, circuit_breakers,
           health_status, recovery_history, metrics, state_file,
           recoveries, starts, log, recovered, restarts, is_running,
           shutdown_event, tasks, monitor, shutdowns, starter, rounds,
           build, stream, stream_task, engine_is_running, webhook_queue,
           listener, engine_shutdown >>

orchVars == << workflows, circuit_breakers, health_status, recovery_history,
               metrics, state_file, recoveries, starts >>

cbVars == << cb, consec, run >>

histVars == << log, recovered, restarts >>

engineVars == << stream, stream_task, engine_is_running, webhook_queue,
                 listener, engine_shutdown >>

lifeVars == << is_running, shutdown_event, tasks, monitor, shutdowns, starter,
               rounds, build >>

---------------------------------------------------------------------------
(* Bounds of the model *)

MaxThreshold == 2      \* SpecCB: failure_threshold ranges over 1..MaxThreshold
MaxTimeout == 2        \* SpecCB: timeout ranges over 1..MaxTimeout
MaxHalfOpen == 2       \* SpecCB: half_open_max_calls ranges over 1..MaxHalfOpen
MaxFailures == 4       \* SpecCB: record_failure stops at this failure_count
MaxTicks == 2          \* clock advances per behaviour
MaxRegistrations == 2  \* Spec: register_workflow calls per behaviour
MaxRuns == 2           \* Spec: start_workflow stops at this run_count
MaxRecoveries == 2     \* SpecRec: auto_recover calls per behaviour
MaxRestarts == 1       \* orchestrators constructed on the snapshot file
MaxRounds == 2         \* SpecLife: iterations of the monitor loop
MaxMonitorRounds == 6  \* SpecMon: iterations of the monitor loop
MaxSignals == 1        \* SpecLife: signals delivered to the process
MaxShutdowns == 2      \* SpecLife: graceful_shutdown calls by API callers
MaxLiveRounds == 7     \* SpecMonLive: iterations of the monitor loop
MaxRetries == 3        \* SpecEngine: max_retries ranges over 1..MaxRetries
MaxEvents == 2         \* SpecEngine: process_event calls per behaviour
MaxWebhooks == 2       \* SpecEngine: webhooks received per behaviour

---------------------------------------------------------------------------
(* Values *)

\* None, for a timestamp field.
NoTime == -1

\* timedelta.seconds is the seconds field of a normalised timedelta:
\* 0 <= seconds < 3600*24, the days being kept in timedelta.days.
SecondsPerDay == 86400

CLOSED == "closed"
OPEN == "open"
HALF_OPEN == "half_open"

Max(a, b) == IF a >= b THEN a ELSE b

\* (datetime.now() - last_failure_time).seconds
ElapsedSeconds(t, last) == (t - last) % SecondsPerDay

---------------------------------------------------------------------------
(* class CircuitBreaker *)

\* CircuitBreaker.__init__
CircuitBreaker(failure_threshold, timeout, half_open_max_calls) ==
    [ failure_threshold   |-> failure_threshold,
      timeout             |-> timeout,
      half_open_max_calls |-> half_open_max_calls,
      failure_count       |-> 0,
      last_failure_time   |-> NoTime,
      state               |-> CLOSED,
      half_open_calls     |-> 0 ]

\* record_success closing the circuit one call late: > for >=
record_success_late(b) ==
    IF b.state = HALF_OPEN
    THEN LET n == b.half_open_calls + 1
         IN  IF n > b.half_open_max_calls
             THEN [b EXCEPT !.state = CLOSED,
                            !.failure_count = 0,
                            !.half_open_calls = 0]
             ELSE [b EXCEPT !.half_open_calls = n]
    ELSE [b EXCEPT !.failure_count = Max(0, b.failure_count - 1)]

\* record_success closing the circuit without resetting half_open_calls
record_success_KeepsCalls(b) ==
    IF b.state = HALF_OPEN
    THEN LET n == b.half_open_calls + 1
         IN  IF n >= b.half_open_max_calls
             THEN [b EXCEPT !.state = CLOSED,
                            !.failure_count = 0,
                            !.half_open_calls = n]
             ELSE [b EXCEPT !.half_open_calls = n]
    ELSE [b EXCEPT !.failure_count = Max(0, b.failure_count - 1)]

\* CircuitBreaker.record_success: the breaker after the call
record_success(b) ==
    IF b.state = HALF_OPEN
    THEN LET n == b.half_open_calls + 1
         IN  IF n >= b.half_open_max_calls
             THEN [b EXCEPT !.state = CLOSED,
                            !.failure_count = 0,
                            !.half_open_calls = 0]
             ELSE [b EXCEPT !.half_open_calls = n]
    ELSE [b EXCEPT !.failure_count = Max(0, b.failure_count - 1)]

\* record_failure tripping one failure late: > for >=
record_failure_late(b, t) ==
    LET n == b.failure_count + 1
    IN  [b EXCEPT !.failure_count = n,
                  !.last_failure_time = t,
                  !.state = IF n > b.failure_threshold THEN OPEN ELSE b.state]

\* CircuitBreaker.record_failure at time t: the breaker after the call
record_failure(b, t) ==
    LET n == b.failure_count + 1
    IN  [b EXCEPT !.failure_count = n,
                  !.last_failure_time = t,
                  !.state = IF n >= b.failure_threshold THEN OPEN ELSE b.state]

\* can_execute closing the circuit itself once the timeout has elapsed
can_execute_ClosesOnTimeout(b, t) ==
    IF b.state = CLOSED
    THEN [ret |-> TRUE, cb |-> b]
    ELSE IF b.state = OPEN
    THEN IF /\ b.last_failure_time # NoTime
            /\ ElapsedSeconds(t, b.last_failure_time) >= b.timeout
         THEN [ret |-> TRUE,
               cb  |-> [b EXCEPT !.state = CLOSED, !.half_open_calls = 0]]
         ELSE [ret |-> FALSE, cb |-> b]
    ELSE [ret |-> TRUE, cb |-> b]

\* CircuitBreaker.can_execute at time t: the result and the breaker after it
can_execute(b, t) ==
    IF b.state = CLOSED
    THEN [ret |-> TRUE, cb |-> b]
    ELSE IF b.state = OPEN
    THEN IF /\ b.last_failure_time # NoTime
            /\ ElapsedSeconds(t, b.last_failure_time) >= b.timeout
         THEN [ret |-> TRUE,
               cb  |-> [b EXCEPT !.state = HALF_OPEN, !.half_open_calls = 0]]
         ELSE [ret |-> FALSE, cb |-> b]
    ELSE [ret |-> TRUE, cb |-> b]

\* CircuitBreaker.get_state
get_state(b) ==
    [ state         |-> b.state,
      failure_count |-> b.failure_count,
      last_failure  |-> b.last_failure_time ]

---------------------------------------------------------------------------
(* SpecCB: one breaker, any sequence of calls *)

\* The record of an API call: its name, its argument, the boolean it
\* returned (FALSE for None), and in doc the document it returned, if any.
\* rep is 2 for a call that repeats the call before it (see StopWorkflow).
Call(op, arg, ret) ==
    [op |-> op, arg |-> arg, ret |-> ret, rep |-> 1, doc |-> << >>]

\* The same, for a call that may repeat the call before it.
RepeatableCall(op, arg, ret) ==
    [ op |-> op, arg |-> arg, ret |-> ret,
      rep |-> IF call.op = op /\ call.arg = arg THEN 2 ELSE 1,
      doc |-> << >> ]

\* The same, for a call that returns a document.
DocumentCall(op, arg, document) ==
    [op |-> op, arg |-> arg, ret |-> FALSE, rep |-> 1, doc |-> << document >>]

\* The same, for a health_check: doc tells whether it ran the probe.
ProbeCall(op, arg, ret, probed) ==
    [ op |-> op, arg |-> arg, ret |-> ret, rep |-> 1,
      doc |-> << [probed |-> probed] >> ]

NoCall == [op |-> "none", arg |-> "none", ret |-> FALSE, rep |-> 1,
           doc |-> << >>]

NoRun == [n |-> 0, c0 |-> 0, fc0 |-> 0]

\* No task has been created for monitor_all_services.
NoMonitor ==
    [ pc |-> "none", index |-> 0, probed |-> FALSE, steps |-> << >>,
      step |-> 0, deadline |-> 0, must_cancel |-> FALSE, checks |-> 0 ]

\* class StreamStatus (quantum-revenue-engine-enhanced.py)
ACTIVE == "active"
PAUSED == "paused"
ERROR == "error"
RECOVERING == "recovering"

\* RevenueStream(name): max_retries defaults to 3
DefaultMaxRetries == 3

\* asyncio.Queue(maxsize=1000)
QueueMaxSize == 1000

\* retry_delay = 1, and retry_delay *= 2
InitialRetryDelay == 1
BackoffFactor == 2

\* RevenueStream.__init__; last_success, a timestamp, is left out.
RevenueStream(max_retries) ==
    [ status          |-> ACTIVE,
      max_retries     |-> max_retries,
      retry_count     |-> 0,
      total_processed |-> 0,
      total_errors    |-> 0,
      last_error      |-> "None" ]

\* No task runs process_stream.  Of a task, attempt and retry_delay are the
\* locals of its process_event call and ret what the last call returned;
\* attempts and failures count the attempts begun and failed in the call,
\* p0 and e0 are total_processed and total_errors when it began, and events
\* counts the calls.
NoStreamTask ==
    [ pc |-> "none", attempt |-> 0, retry_delay |-> InitialRetryDelay,
      ret |-> "none", attempts |-> 0, failures |-> 0, p0 |-> 0, e0 |-> 0,
      events |-> 0 ]

\* No task runs payment_webhook_listener; handled counts the webhooks it
\* has processed.
NoListener == [pc |-> "none", handled |-> 0]

\* asyncio.Queue(): the items queued, and the unfinished tasks join() waits
\* for
EmptyQueue == [items |-> 0, unfinished |-> 0]

\* The engine before start(): unused by the orchestrator's specifications.
EngineIdle ==
    /\ stream = RevenueStream(DefaultMaxRetries)
    /\ stream_task = NoStreamTask
    /\ engine_is_running = TRUE
    /\ webhook_queue = EmptyQueue
    /\ listener = NoListener
    /\ engine_shutdown = "idle"

\* What __init__ sets besides the registry: the flag, the event, the task
\* list; nothing runs yet and no RecoveryEvent has been appended.
LifeIdle ==
    /\ log = << >>
    /\ recovered = 0
    /\ restarts = 0
    /\ is_running = TRUE
    /\ shutdown_event = FALSE
    /\ tasks = << >>
    /\ monitor = NoMonitor
    /\ shutdowns = << >>
    /\ starter = "idle"
    /\ rounds = 0
    /\ build = [cancelled_is_exception |-> FALSE, disk |-> "ok"]

\* The orchestrator before construction: unused by SpecCB.
OrchIdle ==
    /\ workflows = << >>
    /\ circuit_breakers = << >>
    /\ health_status = << >>
    /\ recovery_history = << >>
    /\ metrics = [total_workflows |-> 0, successful_recoveries |-> 0,
                  failed_recoveries |-> 0, uptime_start |-> 0]
    /\ state_file = << >>
    /\ recoveries = << >>
    /\ starts = << >>
    /\ LifeIdle

InitCB ==
    /\ now = 0
    /\ ticks = 0
    /\ call = NoCall
    /\ \E th \in 1..MaxThreshold, to \in 1..MaxTimeout, h \in 1..MaxHalfOpen :
          cb = CircuitBreaker(th, to, h)
    /\ consec = 0
    /\ run = NoRun
    /\ OrchIdle
    /\ EngineIdle

\* The run of record_success calls being observed: it starts at any HALF_OPEN
\* state (half_open_calls = c0, failure_count = fc0 there) and counts the
\* record_success calls made since, up to half_open_max_calls.
RunAfterSuccess ==
    LET fresh == IF cb.state = HALF_OPEN
                 THEN {[n |-> 1, c0 |-> cb.half_open_calls,
                        fc0 |-> cb.failure_count]}
                 ELSE {}
        going == IF run.n > 0
                 THEN {[run EXCEPT !.n = IF run.n < cb.half_open_max_calls
                                         THEN run.n + 1 ELSE run.n]}
                 ELSE {}
    IN  IF fresh \cup going = {} THEN {NoRun} ELSE fresh \cup going

CBRecordSuccess ==
    /\ cb' = record_success(cb)
    /\ consec' = 0
    /\ run' \in RunAfterSuccess
    /\ call' = Call("record_success", "cb", TRUE)
    /\ UNCHANGED << engineVars, lifeVars, histVars, now, ticks, orchVars >>

CBRecordFailure ==
    /\ cb.failure_count < MaxFailures
    /\ cb' = record_failure(cb, now)
    /\ consec' = consec + 1
    /\ run' = NoRun
    /\ call' = Call("record_failure", "cb", TRUE)
    /\ UNCHANGED << engineVars, lifeVars, histVars, now, ticks, orchVars >>

CBCanExecute ==
    LET r == can_execute(cb, now)
    IN  /\ cb' = r.cb
        /\ call' = Call("can_execute", "cb", r.ret)
        /\ UNCHANGED << engineVars, lifeVars, histVars, now, ticks, consec, run, orchVars >>

\* The clock advances by a second, or by a second less than a day.
CBTick ==
    /\ ticks < MaxTicks
    /\ \E d \in {1, SecondsPerDay - 1} : now' = now + d
    /\ ticks' = ticks + 1
    /\ UNCHANGED << engineVars, lifeVars, histVars, call, cb, consec, run, orchVars >>

NextCB ==
    \/ CBRecordSuccess
    \/ CBRecordFailure
    \/ CBCanExecute
    \/ CBTick

SpecCB == InitCB /\ [][NextCB]_vars

\* get_state() called on the breaker: it builds a dict and assigns nothing.
CBGetState ==
    /\ call' = DocumentCall("get_state", "cb", get_state(cb))
    /\ UNCHANGED << engineVars, lifeVars, histVars, now, ticks, cb, consec, run, orchVars >>

\* SpecCBRead: the calls of SpecCB and get_state, in any order
NextCBRead ==
    \/ NextCB
    \/ CBGetState

SpecCBRead == InitCB /\ [][NextCBRead]_vars

---------------------------------------------------------------------------
(* class ControlPlaneOrchestrator *)

\* The names callers pass: any string is accepted as a workflow id and as a
\* service name.  Callers register the names of WorkflowIds, health-check and
\* recover the names of Services, and start and stop every name of Targets.
WorkflowIds == {"wf-a"}
Services == {"wf-a"}
Targets == {"wf-a", "svc-x"}

\* The failure_type strings callers pass to auto_recover: the four keys of
\* recovery_steps and one string that is no key.
FailureTypes == {"service_crash", "memory_leak", "network_failure",
                 "database_connection", "disk_full"}

\* The opaque configuration a caller passes to register_workflow.
Configs == {"cfg"}

\* CircuitBreaker(): the constructor's default arguments
DefaultFailureThreshold == 5
DefaultTimeout == 60
DefaultHalfOpenMaxCalls == 3

\* self.recovery_history[-1000:], self.recovery_history[-100:], [-10:]
HistoryLimit == 1000
SavedHistoryLimit == 100
StatusHistoryLimit == 10

\* d[k] = v on a dict
Put(d, k, v) == (k :> v) @@ d

\* d.get(k) is not None
Has(d, k) == k \in DOMAIN d

\* seq[-n:]
LastN(seq, n) ==
    IF Len(seq) <= n THEN seq ELSE SubSeq(seq, Len(seq) - n + 1, Len(seq))

\* _save_state pickling the whole recovery history
Snapshot_WholeHistory(wf, hist, met, t) ==
    [ workflows        |-> wf,
      recovery_history |-> hist,
      metrics          |-> met,
      saved_at         |-> t ]

\* The state dict _save_state pickles.
Snapshot(wf, hist, met, t) ==
    [ workflows        |-> wf,
      recovery_history |-> LastN(hist, SavedHistoryLimit),
      metrics          |-> met,
      saved_at         |-> t ]

\* What the disk does when _save_state writes: the write succeeds, or
\* open() raises and the file is left as it was, or pickle.dump raises and
\* leaves a truncated file.
DiskModes == {"ok", "open_fails", "dump_fails"}

\* The content of a file that pickle.load cannot read.
CorruptBlob == [corrupt |-> TRUE]

\* _save_state: the file afterwards.  A write that fails is logged by
\* 'except Exception' and _save_state returns as it does after a write
\* that succeeds.
SaveState(file, wf, hist, met, t) ==
    CASE build.disk = "ok" -> { << Snapshot(wf, hist, met, t) >> }
      [] build.disk = "open_fails" -> { file }
      [] build.disk = "dump_fails" -> { << CorruptBlob >> }

\* __init__ with no snapshot file at state_file
Init ==
    /\ now = 0
    /\ ticks = 0
    /\ call = NoCall
    /\ cb = CircuitBreaker(DefaultFailureThreshold, DefaultTimeout,
                           DefaultHalfOpenMaxCalls)
    /\ consec = 0
    /\ run = NoRun
    /\ workflows = << >>
    /\ health_status = << >>
    /\ recovery_history = << >>
    /\ circuit_breakers = << >>
    /\ state_file = << >>
    /\ metrics = [total_workflows |-> 0, successful_recoveries |-> 0,
                  failed_recoveries |-> 0, uptime_start |-> 0]
    /\ recoveries = << >>
    /\ starts = << >>
    /\ LifeIdle
    /\ EngineIdle

\* register_workflow creating the breaker only when the name has none
\* (circuit_breakers.setdefault)
RegisterWorkflow_KeepBreaker(id, config) ==
    /\ metrics.total_workflows < MaxRegistrations
    /\ workflows' = Put(workflows, id,
                        [ config      |-> config,
                          status      |-> "initialized",
                          last_run    |-> NoTime,
                          run_count   |-> 0,
                          error_count |-> 0,
                          created_at  |-> now ])
    /\ circuit_breakers' =
           IF Has(circuit_breakers, id)
           THEN circuit_breakers
           ELSE Put(circuit_breakers, id,
                    CircuitBreaker(DefaultFailureThreshold, DefaultTimeout,
                                   DefaultHalfOpenMaxCalls))
    /\ metrics' = [metrics EXCEPT !.total_workflows = @ + 1]
    /\ state_file' \in SaveState(state_file, workflows', recovery_history,
                                 metrics', now)
    /\ starts' = Put(starts, id, 0)
    /\ call' = Call("register_workflow", id, FALSE)
    /\ UNCHANGED << engineVars, lifeVars, histVars, now, ticks, cbVars, health_status, recovery_history,
                    recoveries >>

\* register_workflow saving the state before it counts the workflow
\* (_save_state() above total_workflows += 1)
RegisterWorkflow_SaveBeforeCount(id, config) ==
    /\ metrics.total_workflows < MaxRegistrations
    /\ workflows' = Put(workflows, id,
                        [ config      |-> config,
                          status      |-> "initialized",
                          last_run    |-> NoTime,
                          run_count   |-> 0,
                          error_count |-> 0,
                          created_at  |-> now ])
    /\ circuit_breakers' =
           Put(circuit_breakers, id,
               CircuitBreaker(DefaultFailureThreshold, DefaultTimeout,
                              DefaultHalfOpenMaxCalls))
    /\ metrics' = [metrics EXCEPT !.total_workflows = @ + 1]
    /\ state_file' \in SaveState(state_file, workflows', recovery_history,
                                 metrics, now)
    /\ starts' = Put(starts, id, 0)
    /\ call' = Call("register_workflow", id, FALSE)
    /\ UNCHANGED << engineVars, lifeVars, histVars, now, ticks, cbVars, health_status, recovery_history,
                    recoveries >>

\* register_workflow(workflow_id, config)
RegisterWorkflow(id, config) ==
    /\ metrics.total_workflows < MaxRegistrations
    /\ workflows' = Put(workflows, id,
                        [ config      |-> config,
                          status      |-> "initialized",
                          last_run    |-> NoTime,
                          run_count   |-> 0,
                          error_count |-> 0,
                          created_at  |-> now ])
    /\ circuit_breakers' =
           Put(circuit_breakers, id,
               CircuitBreaker(DefaultFailureThreshold, DefaultTimeout,
                              DefaultHalfOpenMaxCalls))
    /\ metrics' = [metrics EXCEPT !.total_workflows = @ + 1]
    /\ state_file' \in SaveState(state_file, workflows', recovery_history,
                                 metrics', now)
    /\ starts' = Put(starts, id, 0)
    /\ call' = Call("register_workflow", id, FALSE)
    /\ UNCHANGED << engineVars, lifeVars, histVars, now, ticks, cbVars, health_status, recovery_history,
                    recoveries >>

\* start_workflow without the circuit breaker, as in orchestrator.py
StartWorkflow_NoBreaker(id) ==
    IF ~Has(workflows, id)
    THEN /\ call' = Call("start_workflow", id, FALSE)
         /\ UNCHANGED << engineVars, lifeVars, histVars, now, ticks, cbVars, orchVars >>
    ELSE /\ workflows[id].run_count < MaxRuns
         /\ workflows' = [workflows EXCEPT ![id].status = "running",
                                           ![id].last_run = now,
                                           ![id].run_count = @ + 1]
         /\ starts' = [starts EXCEPT ![id] = @ + 1]
         /\ call' = Call("start_workflow", id, TRUE)
         /\ UNCHANGED << engineVars, lifeVars, histVars, now, ticks, cbVars, circuit_breakers, health_status,
                         recovery_history, metrics, state_file, recoveries >>

\* start_workflow asking the breaker before it looks the workflow up
StartWorkflow_BreakerFirst(id) ==
    LET r == IF Has(circuit_breakers, id)
             THEN can_execute(circuit_breakers[id], now)
             ELSE [ret |-> TRUE, cb |-> << >>]
    IN  /\ circuit_breakers' =
               IF Has(circuit_breakers, id)
               THEN [circuit_breakers EXCEPT ![id] = r.cb]
               ELSE circuit_breakers
        /\ IF ~r.ret \/ ~Has(workflows, id)
           THEN /\ call' = Call("start_workflow", id, FALSE)
                /\ UNCHANGED << engineVars, workflows, starts >>
           ELSE /\ workflows[id].run_count < MaxRuns
                /\ workflows' =
                       [workflows EXCEPT ![id].status = "running",
                                         ![id].last_run = now,
                                         ![id].run_count = @ + 1]
                /\ starts' = [starts EXCEPT ![id] = @ + 1]
                /\ call' = Call("start_workflow", id, TRUE)
        /\ UNCHANGED << engineVars, lifeVars, histVars, now, ticks, cbVars, health_status, recovery_history,
                        metrics, state_file, recoveries >>

\* start_workflow counting a run only when the workflow was not running
StartWorkflow_SkipRunning(id) ==
    IF ~Has(workflows, id)
    THEN /\ call' = Call("start_workflow", id, FALSE)
         /\ UNCHANGED << engineVars, lifeVars, histVars, now, ticks, cbVars, orchVars >>
    ELSE LET r == IF Has(circuit_breakers, id)
                  THEN can_execute(circuit_breakers[id], now)
                  ELSE [ret |-> TRUE, cb |-> << >>]
         IN  /\ circuit_breakers' =
                    IF Has(circuit_breakers, id)
                    THEN [circuit_breakers EXCEPT ![id] = r.cb]
                    ELSE circuit_breakers
             /\ IF ~r.ret
                THEN /\ call' = Call("start_workflow", id, FALSE)
                     /\ UNCHANGED << engineVars, workflows, starts >>
                ELSE /\ workflows[id].run_count < MaxRuns
                     /\ workflows' =
                            IF workflows[id].status = "running"
                            THEN [workflows EXCEPT ![id].last_run = now]
                            ELSE [workflows EXCEPT ![id].status = "running",
                                                   ![id].last_run = now,
                                                   ![id].run_count = @ + 1]
                     /\ starts' = [starts EXCEPT ![id] = @ + 1]
                     /\ call' = Call("start_workflow", id, TRUE)
             /\ UNCHANGED << engineVars, lifeVars, histVars, now, ticks, cbVars, health_status,
                             recovery_history, metrics, state_file,
                             recoveries >>

\* start_workflow(workflow_id)
StartWorkflow(id) ==
    IF ~Has(workflows, id)
    THEN /\ call' = Call("start_workflow", id, FALSE)
         /\ UNCHANGED << engineVars, lifeVars, histVars, now, ticks, cbVars, orchVars >>
    ELSE LET r == IF Has(circuit_breakers, id)
                  THEN can_execute(circuit_breakers[id], now)
                  ELSE [ret |-> TRUE, cb |-> << >>]
         IN  /\ circuit_breakers' =
                    IF Has(circuit_breakers, id)
                    THEN [circuit_breakers EXCEPT ![id] = r.cb]
                    ELSE circuit_breakers
             /\ IF ~r.ret
                THEN /\ call' = Call("start_workflow", id, FALSE)
                     /\ UNCHANGED << engineVars, workflows, starts >>
                ELSE /\ workflows[id].run_count < MaxRuns
                     /\ workflows' =
                            [workflows EXCEPT ![id].status = "running",
                                              ![id].last_run = now,
                                              ![id].run_count = @ + 1]
                     /\ starts' = [starts EXCEPT ![id] = @ + 1]
                     /\ call' = Call("start_workflow", id, TRUE)
             /\ UNCHANGED << engineVars, lifeVars, histVars, now, ticks, cbVars, health_status,
                             recovery_history, metrics, state_file,
                             recoveries >>

\* stop_workflow refusing a workflow that is not running
StopWorkflow_OnlyRunning(id) ==
    IF Has(workflows, id) /\ workflows[id].status = "running"
    THEN /\ workflows' = [workflows EXCEPT ![id].status = "stopped"]
         /\ call' = RepeatableCall("stop_workflow", id, TRUE)
         /\ UNCHANGED << engineVars, lifeVars, histVars, now, ticks, cbVars, circuit_breakers, health_status,
                         recovery_history, metrics, state_file, recoveries,
                         starts >>
    ELSE /\ call' = RepeatableCall("stop_workflow", id, FALSE)
         /\ UNCHANGED << engineVars, lifeVars, histVars, now, ticks, cbVars, orchVars >>

\* stop_workflow(workflow_id)
StopWorkflow(id) ==
    IF Has(workflows, id)
    THEN /\ workflows' = [workflows EXCEPT ![id].status = "stopped"]
         /\ call' = RepeatableCall("stop_workflow", id, TRUE)
         /\ UNCHANGED << engineVars, lifeVars, histVars, now, ticks, cbVars, circuit_breakers, health_status,
                         recovery_history, metrics, state_file, recoveries,
                         starts >>
    ELSE /\ call' = RepeatableCall("stop_workflow", id, FALSE)
         /\ UNCHANGED << engineVars, lifeVars, histVars, now, ticks, cbVars, orchVars >>

\* The HealthRecord of a probe that succeeded.
Healthy(b, t) ==
    [ status            |-> "healthy",
      last_check        |-> t,
      uptime_percentage |-> "99.9",
      circuit_breaker   |-> get_state(b) ]

\* The HealthRecord of a probe that raised.
Unhealthy(b, t) ==
    [ status          |-> "unhealthy",
      last_check      |-> t,
      error           |-> "Simulated health check failure",
      circuit_breaker |-> get_state(b) ]

\* self.circuit_breakers.get(service_name), or the CircuitBreaker() that
\* health_check creates when there is none
BreakerOf(cbs, service_name) ==
    IF Has(cbs, service_name)
    THEN cbs[service_name]
    ELSE CircuitBreaker(DefaultFailureThreshold, DefaultTimeout,
                        DefaultHalfOpenMaxCalls)

\* health_check writing an unhealthy HealthRecord when the breaker refuses
health_check_RecordRefusal(cbs, hs, service_name, probe_fails, t) ==
    LET r == can_execute(BreakerOf(cbs, service_name), t)
    IN  IF ~r.ret
        THEN [ ret |-> FALSE, probed |-> FALSE,
               circuit_breakers |-> Put(cbs, service_name, r.cb),
               health_status |-> Put(hs, service_name, Unhealthy(r.cb, t)) ]
        ELSE IF ~probe_fails
        THEN [ ret |-> TRUE, probed |-> TRUE,
               circuit_breakers |->
                   Put(cbs, service_name, record_success(r.cb)),
               health_status |-> Put(hs, service_name, Healthy(r.cb, t)) ]
        ELSE [ ret |-> FALSE, probed |-> TRUE,
               circuit_breakers |->
                   Put(cbs, service_name, record_failure(r.cb, t)),
               health_status |->
                   Put(hs, service_name,
                       Unhealthy(record_failure(r.cb, t), t)) ]

\* health_check writing the HealthRecord of a failed probe without
\* calling record_failure
health_check_NoRecordFailure(cbs, hs, service_name, probe_fails, t) ==
    LET r == can_execute(BreakerOf(cbs, service_name), t)
    IN  IF ~r.ret
        THEN [ ret |-> FALSE, probed |-> FALSE,
               circuit_breakers |-> Put(cbs, service_name, r.cb),
               health_status |-> hs ]
        ELSE IF ~probe_fails
        THEN [ ret |-> TRUE, probed |-> TRUE,
               circuit_breakers |->
                   Put(cbs, service_name, record_success(r.cb)),
               health_status |-> Put(hs, service_name, Healthy(r.cb, t)) ]
        ELSE [ ret |-> FALSE, probed |-> TRUE,
               circuit_breakers |-> Put(cbs, service_name, r.cb),
               health_status |->
                   Put(hs, service_name, Unhealthy(r.cb, t)) ]

\* health_check recording the failure of a probe without writing the
\* HealthRecord
health_check_NoUnhealthyRecord(cbs, hs, service_name, probe_fails, t) ==
    LET r == can_execute(BreakerOf(cbs, service_name), t)
    IN  IF ~r.ret
        THEN [ ret |-> FALSE, probed |-> FALSE,
               circuit_breakers |-> Put(cbs, service_name, r.cb),
               health_status |-> hs ]
        ELSE IF ~probe_fails
        THEN [ ret |-> TRUE, probed |-> TRUE,
               circuit_breakers |->
                   Put(cbs, service_name, record_success(r.cb)),
               health_status |-> Put(hs, service_name, Healthy(r.cb, t)) ]
        ELSE [ ret |-> FALSE, probed |-> TRUE,
               circuit_breakers |->
                   Put(cbs, service_name, record_failure(r.cb, t)),
               health_status |-> hs ]

\* health_check(service_name) at time t on the breakers cbs and the health
\* records hs; probe_fails is random.random() < 0.1.  The result, whether the
\* probe was run, and the breakers and health records afterwards.
health_check(cbs, hs, service_name, probe_fails, t) ==
    LET r == can_execute(BreakerOf(cbs, service_name), t)
    IN  IF ~r.ret
        THEN [ ret |-> FALSE, probed |-> FALSE,
               circuit_breakers |-> Put(cbs, service_name, r.cb),
               health_status |-> hs ]
        ELSE IF ~probe_fails
        THEN [ ret |-> TRUE, probed |-> TRUE,
               circuit_breakers |->
                   Put(cbs, service_name, record_success(r.cb)),
               health_status |-> Put(hs, service_name, Healthy(r.cb, t)) ]
        ELSE [ ret |-> FALSE, probed |-> TRUE,
               circuit_breakers |->
                   Put(cbs, service_name, record_failure(r.cb, t)),
               health_status |->
                   Put(hs, service_name,
                       Unhealthy(record_failure(r.cb, t), t)) ]

\* An API caller awaits health_check(service_name).
HealthCheck(name, probe_fails) ==
    LET r == health_check(circuit_breakers, health_status, name, probe_fails,
                          now)
    IN  /\ circuit_breakers' = r.circuit_breakers
        /\ health_status' = r.health_status
        /\ call' = ProbeCall("health_check", name, r.ret, r.probed)
        /\ UNCHANGED << engineVars, lifeVars, histVars, now, ticks, cbVars, workflows,
                        recovery_history, metrics, state_file, recoveries,
                        starts >>

\* str(timedelta(seconds=int(uptime))): days, hours, minutes, seconds
FormatUptime(u) ==
    [ days    |-> u \div SecondsPerDay,
      hours   |-> (u % SecondsPerDay) \div 3600,
      minutes |-> (u % 3600) \div 60,
      seconds |-> u % 60 ]

\* get_system_status() reporting the first ten events ([:10])
SystemStatus_FirstTen ==
    LET uptime == now - metrics.uptime_start
    IN  [ workflows        |-> workflows,
          health_status    |-> health_status,
          recovery_history |->
              SubSeq(recovery_history, 1,
                     IF Len(recovery_history) < StatusHistoryLimit
                     THEN Len(recovery_history) ELSE StatusHistoryLimit),
          circuit_breakers |-> [k \in DOMAIN circuit_breakers |->
                                    get_state(circuit_breakers[k])],
          metrics          |-> [ total_workflows       |-> metrics.total_workflows,
                                 successful_recoveries |-> metrics.successful_recoveries,
                                 failed_recoveries     |-> metrics.failed_recoveries,
                                 uptime_start          |-> metrics.uptime_start,
                                 uptime_seconds        |-> uptime,
                                 uptime_formatted      |-> FormatUptime(uptime) ],
          timestamp        |-> now ]

\* get_system_status(): the document returned
SystemStatus ==
    LET uptime == now - metrics.uptime_start
    IN  [ workflows        |-> workflows,
          health_status    |-> health_status,
          recovery_history |-> LastN(recovery_history, StatusHistoryLimit),
          circuit_breakers |-> [k \in DOMAIN circuit_breakers |->
                                    get_state(circuit_breakers[k])],
          metrics          |-> [ total_workflows       |-> metrics.total_workflows,
                                 successful_recoveries |-> metrics.successful_recoveries,
                                 failed_recoveries     |-> metrics.failed_recoveries,
                                 uptime_start          |-> metrics.uptime_start,
                                 uptime_seconds        |-> uptime,
                                 uptime_formatted      |-> FormatUptime(uptime) ],
          timestamp        |-> now ]

\* get_system_status()
GetSystemStatus ==
    /\ call' = DocumentCall("get_system_status", "", SystemStatus)
    /\ UNCHANGED << engineVars, lifeVars, histVars, now, ticks, cbVars, orchVars >>

\* The clock advances by half the breakers' default timeout.
Tick ==
    /\ ticks < MaxTicks
    /\ now' = now + DefaultTimeout \div 2
    /\ ticks' = ticks + 1
    /\ UNCHANGED << engineVars, lifeVars, histVars, call, cbVars, orchVars >>

Next ==
    \/ \E id \in WorkflowIds, config \in Configs : RegisterWorkflow(id, config)
    \/ \E id \in Targets : StartWorkflow(id)
    \/ \E id \in Targets : StopWorkflow(id)
    \/ \E name \in Services, probe_fails \in BOOLEAN :
          HealthCheck(name, probe_fails)
    \/ GetSystemStatus
    \/ Tick

Spec == Init /\ [][Next]_vars

---------------------------------------------------------------------------
(* auto_recover, a coroutine that suspends at asyncio.sleep(1) in every step *)

\* recovery_steps.get(failure_type, []): no default step
RecoverySteps_NoDefault(failure_type) ==
    CASE failure_type = "service_crash" ->
             << "restart_service", "verify_health", "restore_connections" >>
      [] failure_type = "memory_leak" ->
             << "clear_cache", "restart_service", "scale_resources" >>
      [] failure_type = "network_failure" ->
             << "reset_connections", "update_routing", "verify_connectivity" >>
      [] failure_type = "database_connection" ->
             << "reconnect_pool", "verify_credentials", "test_queries" >>
      [] OTHER -> << >>

\* recovery_steps.get(failure_type, ['restart_service'])
RecoverySteps(failure_type) ==
    CASE failure_type = "service_crash" ->
             << "restart_service", "verify_health", "restore_connections" >>
      [] failure_type = "memory_leak" ->
             << "clear_cache", "restart_service", "scale_resources" >>
      [] failure_type = "network_failure" ->
             << "reset_connections", "update_routing", "verify_connectivity" >>
      [] failure_type = "database_connection" ->
             << "reconnect_pool", "verify_credentials", "test_queries" >>
      [] OTHER -> << "restart_service" >>

\* seq without its k-th element
RemoveAt(seq, k) == SubSeq(seq, 1, k - 1) \o SubSeq(seq, k + 1, Len(seq))

\* The RecoveryEvent auto_recover appends
RecoveryEvent(service_name, failure_type, t, steps, success) ==
    [ service        |-> service_name,
      failure_type   |-> failure_type,
      timestamp      |-> t,
      steps_executed |-> steps,
      success        |-> success ]

\* auto_recover trimming the history to its first 1000 events ([:1000])
AutoRecoverFinish_KeepOldest(service_name, failure_type, steps) ==
    /\ metrics' = [metrics EXCEPT !.successful_recoveries = @ + 1]
    /\ recovery_history' =
           SubSeq(Append(recovery_history,
                         RecoveryEvent(service_name, failure_type, now,
                                       steps, TRUE)),
                  1, IF Len(recovery_history) < HistoryLimit
                     THEN Len(recovery_history) + 1 ELSE HistoryLimit)
    /\ log' = Append(log, RecoveryEvent(service_name, failure_type, now,
                                        steps, TRUE))
    /\ call' = Call("auto_recover", service_name, TRUE)

\* The end of auto_recover once the for loop has run through: the success
\* counter, the RecoveryEvent appended, the history trimmed, the result.
AutoRecoverFinish(service_name, failure_type, steps) ==
    /\ metrics' = [metrics EXCEPT !.successful_recoveries = @ + 1]
    /\ recovery_history' =
           LastN(Append(recovery_history,
                        RecoveryEvent(service_name, failure_type, now, steps,
                                      TRUE)),
                 HistoryLimit)
    /\ log' = Append(log, RecoveryEvent(service_name, failure_type, now,
                                        steps, TRUE))
    /\ call' = Call("auto_recover", service_name, TRUE)

\* auto_recover(service_name, failure_type) is called: it runs to its first
\* await, in the first step, or to its end when there is no step.
AutoRecoverBegin(service_name, failure_type) ==
    LET steps == RecoverySteps(failure_type)
    IN  /\ recovered < MaxRecoveries
        /\ recovered' = recovered + 1
        /\ IF steps = << >>
           THEN /\ AutoRecoverFinish(service_name, failure_type, steps)
                /\ UNCHANGED recoveries
           ELSE /\ recoveries' =
                       Append(recoveries,
                              [ service_name |-> service_name,
                                failure_type |-> failure_type,
                                steps        |-> steps,
                                step         |-> 1 ])
                /\ UNCHANGED << engineVars, call, metrics, recovery_history, log >>
        /\ UNCHANGED << engineVars, lifeVars, restarts, now, ticks, cbVars, workflows, circuit_breakers,
                        health_status, state_file, starts >>

\* auto_recover with an await between the counter and the append: the
\* coroutine suspends once more after successful_recoveries += 1
AutoRecoverResume_AwaitBeforeAppend(k) ==
    LET co == recoveries[k]
    IN  /\ IF co.step < Len(co.steps)
           THEN /\ recoveries' = [recoveries EXCEPT ![k].step = @ + 1]
                /\ UNCHANGED << engineVars, call, metrics, recovery_history, log >>
           ELSE IF co.step = Len(co.steps)
           THEN /\ metrics' = [metrics EXCEPT !.successful_recoveries = @ + 1]
                /\ recoveries' = [recoveries EXCEPT ![k].step = @ + 1]
                /\ UNCHANGED << engineVars, call, recovery_history, log >>
           ELSE /\ recovery_history' =
                       LastN(Append(recovery_history,
                                    RecoveryEvent(co.service_name,
                                                  co.failure_type, now,
                                                  co.steps, TRUE)),
                             HistoryLimit)
                /\ log' = Append(log, RecoveryEvent(co.service_name,
                                                    co.failure_type, now,
                                                    co.steps, TRUE))
                /\ call' = Call("auto_recover", co.service_name, TRUE)
                /\ recoveries' = RemoveAt(recoveries, k)
                /\ UNCHANGED metrics
        /\ UNCHANGED << engineVars, lifeVars, recovered, restarts, now, ticks, cbVars, workflows, circuit_breakers,
                        health_status, state_file, starts >>

\* The k-th suspended auto_recover resumes from asyncio.sleep(1): it goes on
\* to the next step's await, or past the last step to its end.
AutoRecoverResume(k) ==
    LET co == recoveries[k]
    IN  /\ IF co.step < Len(co.steps)
           THEN /\ recoveries' = [recoveries EXCEPT ![k].step = @ + 1]
                /\ UNCHANGED << engineVars, call, metrics, recovery_history, log >>
           ELSE /\ AutoRecoverFinish(co.service_name, co.failure_type, co.steps)
                /\ recoveries' = RemoveAt(recoveries, k)
        /\ UNCHANGED << engineVars, lifeVars, recovered, restarts, now, ticks, cbVars, workflows, circuit_breakers,
                        health_status, state_file, starts >>

NextRec ==
    \/ \E service_name \in Services, failure_type \in FailureTypes :
          AutoRecoverBegin(service_name, failure_type)
    \/ \E k \in 1..Len(recoveries) : AutoRecoverResume(k)
    \/ GetSystemStatus
    \/ Tick

SpecRec == Init /\ [][NextRec]_vars

---------------------------------------------------------------------------
(* Long recovery histories and the snapshot file: SpecHist, SpecSnap *)

\* The lengths of the recovery history at the start of the behaviours of
\* SpecHist and SpecSnap: none, one more than _save_state keeps, and as many
\* as auto_recover keeps.
HistSizes == {0, SavedHistoryLimit + 1, HistoryLimit}

\* The failure_type strings passed to auto_recover under SpecHist.
HistFailureTypes == {"service_crash", "disk_full"}

\* The seconds one auto_recover of a service_crash takes at least: one
\* asyncio.sleep(1) per step.
CrashRecoverySeconds == Len(RecoverySteps("service_crash"))

\* The history after n auto_recover(service, 'service_crash') calls made one
\* after the other since construction.
HistoryOf(n, service) ==
    [ i \in 1..n |->
        RecoveryEvent(service, "service_crash", CrashRecoverySeconds * i,
                      RecoverySteps("service_crash"), TRUE) ]

\* The orchestrator after that many recoveries.
InitHist ==
    /\ ticks = 0
    /\ call = NoCall
    /\ cb = CircuitBreaker(DefaultFailureThreshold, DefaultTimeout,
                           DefaultHalfOpenMaxCalls)
    /\ consec = 0
    /\ run = NoRun
    /\ workflows = << >>
    /\ health_status = << >>
    /\ circuit_breakers = << >>
    /\ state_file = << >>
    /\ recoveries = << >>
    /\ starts = << >>
    /\ \E n \in HistSizes :
          /\ now = CrashRecoverySeconds * n
          /\ recovery_history = HistoryOf(n, "wf-a")
          /\ log = HistoryOf(n, "wf-a")
          /\ metrics = [total_workflows |-> 0, successful_recoveries |-> n,
                        failed_recoveries |-> 0, uptime_start |-> 0]
    /\ recovered = 0
    /\ restarts = 0
    /\ is_running = TRUE
    /\ shutdown_event = FALSE
    /\ tasks = << >>
    /\ monitor = NoMonitor
    /\ shutdowns = << >>
    /\ starter = "idle"
    /\ rounds = 0
    /\ EngineIdle
    /\ build = [cancelled_is_exception |-> FALSE, disk |-> "ok"]

\* state.get(key, default) on the unpickled dict
Get(state, key, default) ==
    IF key \in DOMAIN state THEN state[key] ELSE default

\* _load_state without its try/except: pickle.load raising on a file it
\* cannot read makes __init__ raise
LoadState_NoExcept(file, met) ==
    IF file = << >>
    THEN [ workflows |-> << >>, recovery_history |-> << >>, metrics |-> met,
           raised |-> FALSE ]
    ELSE IF file[1] = CorruptBlob
    THEN [ workflows |-> << >>, recovery_history |-> << >>, metrics |-> met,
           raised |-> TRUE ]
    ELSE [ workflows        |-> Get(file[1], "workflows", << >>),
           recovery_history |-> Get(file[1], "recovery_history", << >>),
           metrics          |-> Get(file[1], "metrics", met),
           raised           |-> FALSE ]

\* _load_state in __init__: the registry, history and metrics of the new
\* orchestrator, met being the metrics __init__ has just set, and whether
\* it raised.  With no file nothing is loaded; on a file pickle.load cannot
\* read, the exception is caught before anything is assigned.
LoadState(file, met) ==
    IF file = << >> \/ file[1] = CorruptBlob
    THEN [ workflows |-> << >>, recovery_history |-> << >>, metrics |-> met,
           raised |-> FALSE ]
    ELSE [ workflows        |-> Get(file[1], "workflows", << >>),
           recovery_history |-> Get(file[1], "recovery_history", << >>),
           metrics          |-> Get(file[1], "metrics", met),
           raised           |-> FALSE ]

\* ControlPlaneOrchestrator(state_file) on the snapshot file: a new
\* orchestrator takes the place of the one that wrote it.
ConstructOn(file) ==
    LET loaded == LoadState(file,
                            [ total_workflows       |-> 0,
                              successful_recoveries |-> 0,
                              failed_recoveries     |-> 0,
                              uptime_start          |-> now ])
    IN  /\ workflows' = loaded.workflows
        /\ recovery_history' = loaded.recovery_history
        /\ metrics' = loaded.metrics
        /\ health_status' = << >>
        /\ circuit_breakers' = << >>
        /\ is_running' = TRUE
        /\ shutdown_event' = FALSE
        /\ tasks' = << >>
        /\ recoveries' = << >>
        /\ log' = loaded.recovery_history
        /\ call' = [ Call("__init__", "", FALSE)
                       EXCEPT !.doc = << [raised |-> loaded.raised] >> ]

\* A caller calls _save_state() and then constructs a new orchestrator on
\* the same file, as test_state_persistence does.
SaveThenConstruct ==
    /\ restarts < MaxRestarts
    /\ restarts' = restarts + 1
    /\ state_file' \in SaveState(state_file, workflows, recovery_history,
                                 metrics, now)
    /\ ConstructOn(state_file')
    /\ UNCHANGED << engineVars, now, ticks, cbVars, starts, recovered, monitor, shutdowns,
                    starter, rounds, build >>

NextHist ==
    \/ \E service_name \in Services, failure_type \in HistFailureTypes :
          AutoRecoverBegin(service_name, failure_type)
    \/ \E k \in 1..Len(recoveries) : AutoRecoverResume(k)
    \/ SaveThenConstruct

SpecHist == InitHist /\ [][NextHist]_vars

NextSnap ==
    \/ \E id \in WorkflowIds, config \in Configs : RegisterWorkflow(id, config)
    \/ \E id \in WorkflowIds : StartWorkflow(id)
    \/ \E id \in WorkflowIds : StopWorkflow(id)
    \/ \E name \in Services, probe_fails \in BOOLEAN :
          HealthCheck(name, probe_fails)
    \/ SaveThenConstruct

SpecSnap == InitHist /\ [][NextSnap]_vars

\* Concurrent API callers on one event loop: register_workflow,
\* start_workflow, stop_workflow, health_check and get_system_status have no
\* await that suspends, so each call runs from its first line to its last in
\* one step; auto_recover suspends at the asyncio.sleep(1) of every step,
\* where any other caller may run.
NextConc ==
    \/ \E id \in WorkflowIds, config \in Configs : RegisterWorkflow(id, config)
    \/ \E id \in WorkflowIds : StartWorkflow(id)
    \/ \E id \in WorkflowIds : StopWorkflow(id)
    \/ \E name \in Services, probe_fails \in BOOLEAN :
          HealthCheck(name, probe_fails)
    \/ \E service_name \in Services, failure_type \in HistFailureTypes :
          AutoRecoverBegin(service_name, failure_type)
    \/ \E k \in 1..Len(recoveries) : AutoRecoverResume(k)
    \/ GetSystemStatus

SpecConc == Init /\ [][NextConc]_vars

\* The lengths of the recovery history at the start of the behaviours of
\* SpecStatus: none, and one less and one more than get_system_status
\* reports.
StatusHistSizes == {0, StatusHistoryLimit - 1, StatusHistoryLimit + 1}

\* The orchestrator after that many recoveries.
InitStatus ==
    /\ ticks = 0
    /\ call = NoCall
    /\ cb = CircuitBreaker(DefaultFailureThreshold, DefaultTimeout,
                           DefaultHalfOpenMaxCalls)
    /\ consec = 0
    /\ run = NoRun
    /\ workflows = << >>
    /\ health_status = << >>
    /\ circuit_breakers = << >>
    /\ state_file = << >>
    /\ recoveries = << >>
    /\ starts = << >>
    /\ \E n \in StatusHistSizes :
          /\ now = CrashRecoverySeconds * n
          /\ recovery_history = HistoryOf(n, "wf-a")
          /\ log = HistoryOf(n, "wf-a")
          /\ metrics = [total_workflows |-> 0, successful_recoveries |-> n,
                        failed_recoveries |-> 0, uptime_start |-> 0]
    /\ recovered = 0
    /\ restarts = 0
    /\ is_running = TRUE
    /\ shutdown_event = FALSE
    /\ tasks = << >>
    /\ monitor = NoMonitor
    /\ shutdowns = << >>
    /\ starter = "idle"
    /\ rounds = 0
    /\ EngineIdle
    /\ build = [cancelled_is_exception |-> FALSE, disk |-> "ok"]

\* Callers that make breakers and events, and callers of get_system_status.
NextStatus ==
    \/ \E name \in Targets, probe_fails \in BOOLEAN :
          HealthCheck(name, probe_fails)
    \/ \E service_name \in Services, failure_type \in HistFailureTypes :
          AutoRecoverBegin(service_name, failure_type)
    \/ \E k \in 1..Len(recoveries) : AutoRecoverResume(k)
    \/ GetSystemStatus

SpecStatus == InitStatus /\ [][NextStatus]_vars

---------------------------------------------------------------------------
(* start(), monitor_all_services and graceful_shutdown: SpecLife.           *)
(* Coroutines switch only at their awaits, so an action runs one coroutine  *)
(* from one suspension to the next.  health_check, stop_workflow,           *)
(* register_workflow, start_workflow and get_system_status never suspend.   *)

\* The services list of monitor_all_services, cut to its first two names.
MonitoredServices == << "revenue-engine", "database" >>

\* asyncio.wait_for(self.shutdown_event.wait(), timeout=15.0)
MonitorInterval == 15

\* asyncio.sleep(1) in a recovery step
StepSeconds == 1

\* The workflows start() registers, with their configurations.
DefaultWorkflows ==
    << [id |-> "revenue-automation", config |-> "async/high"],
       [id |-> "data-processing", config |-> "batch/medium"],
       [id |-> "backup-sync", config |-> "scheduled/low"] >>

\* The behaviours of SpecLife begin like those of Spec, on an interpreter
\* where CancelledError is an Exception (Python 3.7) or is not (3.8 on).
InitLife ==
    /\ now = 0
    /\ ticks = 0
    /\ call = NoCall
    /\ cb = CircuitBreaker(DefaultFailureThreshold, DefaultTimeout,
                           DefaultHalfOpenMaxCalls)
    /\ consec = 0
    /\ run = NoRun
    /\ workflows = << >>
    /\ health_status = << >>
    /\ recovery_history = << >>
    /\ circuit_breakers = << >>
    /\ state_file = << >>
    /\ metrics = [total_workflows |-> 0, successful_recoveries |-> 0,
                  failed_recoveries |-> 0, uptime_start |-> 0]
    /\ recoveries = << >>
    /\ starts = << >>
    /\ log = << >>
    /\ recovered = 0
    /\ restarts = 0
    /\ is_running = TRUE
    /\ shutdown_event = FALSE
    /\ tasks = << >>
    /\ monitor = NoMonitor
    /\ shutdowns = << >>
    /\ starter = "idle"
    /\ rounds = MaxRounds
    /\ EngineIdle
    /\ build \in {[cancelled_is_exception |-> e, disk |-> "ok"] :
                      e \in BOOLEAN}

\* The behaviours of SpecMon: the monitor loop running without a shutdown.
InitMon ==
    /\ now = 0
    /\ ticks = 0
    /\ call = NoCall
    /\ cb = CircuitBreaker(DefaultFailureThreshold, DefaultTimeout,
                           DefaultHalfOpenMaxCalls)
    /\ consec = 0
    /\ run = NoRun
    /\ workflows = << >>
    /\ health_status = << >>
    /\ recovery_history = << >>
    /\ circuit_breakers = << >>
    /\ state_file = << >>
    /\ metrics = [total_workflows |-> 0, successful_recoveries |-> 0,
                  failed_recoveries |-> 0, uptime_start |-> 0]
    /\ recoveries = << >>
    /\ starts = << >>
    /\ log = << >>
    /\ recovered = 0
    /\ restarts = 0
    /\ is_running = TRUE
    /\ shutdown_event = FALSE
    /\ tasks = << >>
    /\ monitor = NoMonitor
    /\ shutdowns = << >>
    /\ starter = "idle"
    /\ rounds = MaxMonitorRounds
    /\ EngineIdle
    /\ build = [cancelled_is_exception |-> FALSE, disk |-> "ok"]

\* The monitor task has ended: its coroutine returned, or it was cancelled
\* before it ran (task.done()).
MonitorDone == monitor.pc \in {"done", "cancelled"}

\* The for loop of monitor_all_services from the i-th service on, at time t,
\* fails[j] telling whether the probe of the j-th service raises: the
\* breakers and health records afterwards, the index of the service whose
\* health_check returned False (0 if none did), whether that health_check
\* ran its probe, and the number of health_check calls made.
RECURSIVE Scan(_, _, _, _, _)
Scan(i, cbs, hs, fails, t) ==
    IF i > Len(MonitoredServices)
    THEN [ circuit_breakers |-> cbs, health_status |-> hs, failed |-> 0,
           probed |-> FALSE, checks |-> 0 ]
    ELSE LET r == health_check(cbs, hs, MonitoredServices[i], fails[i], t)
         IN  IF r.ret
             THEN LET rest == Scan(i + 1, r.circuit_breakers, r.health_status,
                                   fails, t)
                  IN  [rest EXCEPT !.checks = @ + 1]
             ELSE [ circuit_breakers |-> r.circuit_breakers,
                    health_status |-> r.health_status, failed |-> i,
                    probed |-> r.probed, checks |-> 1 ]

\* The monitor suspends in asyncio.wait_for(self.shutdown_event.wait(), 15).
MonitorWaits ==
    monitor' = [monitor EXCEPT !.pc = "wait", !.index = 0, !.probed = FALSE,
                               !.steps = << >>, !.step = 0,
                               !.deadline = now + MonitorInterval,
                               !.must_cancel = FALSE]

\* The monitor returns: the while loop is left.
MonitorReturns ==
    monitor' = [monitor EXCEPT !.pc = "done", !.index = 0, !.probed = FALSE,
                               !.steps = << >>, !.step = 0,
                               !.must_cancel = FALSE]

\* The for loop without 'if not self.is_running: break'
ForLoopFrom_NoFlagCheck(i) ==
    IF i > Len(MonitoredServices)
    THEN /\ MonitorWaits
         /\ UNCHANGED << engineVars, circuit_breakers, health_status >>
    ELSE \E fails \in [1..Len(MonitoredServices) -> BOOLEAN] :
            LET r == Scan(i, circuit_breakers, health_status, fails, now)
            IN  /\ circuit_breakers' = r.circuit_breakers
                /\ health_status' = r.health_status
                /\ IF r.failed = 0
                   THEN monitor' =
                            [monitor EXCEPT !.pc = "wait", !.index = 0,
                                            !.probed = FALSE,
                                            !.steps = << >>, !.step = 0,
                                            !.deadline = now + MonitorInterval,
                                            !.must_cancel = FALSE,
                                            !.checks = @ + r.checks]
                   ELSE monitor' =
                            [monitor EXCEPT !.pc = "sleep",
                                            !.index = r.failed,
                                            !.probed = r.probed,
                                            !.steps = RecoverySteps("service_crash"),
                                            !.step = 1,
                                            !.deadline = now + StepSeconds,
                                            !.must_cancel = FALSE,
                                            !.checks = @ + r.checks]

\* The for loop goes on with the i-th service, up to the next await:
\* the first sleep of auto_recover(service, 'service_crash') for the first
\* service whose health_check returns False, or else the wait_for.
ForLoopFrom(i) ==
    IF i > Len(MonitoredServices) \/ ~is_running
    THEN /\ MonitorWaits
         /\ UNCHANGED << engineVars, circuit_breakers, health_status >>
    ELSE \E fails \in [1..Len(MonitoredServices) -> BOOLEAN] :
            LET r == Scan(i, circuit_breakers, health_status, fails, now)
            IN  /\ circuit_breakers' = r.circuit_breakers
                /\ health_status' = r.health_status
                /\ IF r.failed = 0
                   THEN monitor' =
                            [monitor EXCEPT !.pc = "wait", !.index = 0,
                                            !.probed = FALSE,
                                            !.steps = << >>, !.step = 0,
                                            !.deadline = now + MonitorInterval,
                                            !.must_cancel = FALSE,
                                            !.checks = @ + r.checks]
                   ELSE monitor' =
                            [monitor EXCEPT !.pc = "sleep",
                                            !.index = r.failed,
                                            !.probed = r.probed,
                                            !.steps = RecoverySteps("service_crash"),
                                            !.step = 1,
                                            !.deadline = now + StepSeconds,
                                            !.must_cancel = FALSE,
                                            !.checks = @ + r.checks]

\* while self.is_running: the loop is left, or an iteration begins.
WhileLoop ==
    IF ~is_running
    THEN /\ MonitorReturns
         /\ UNCHANGED << engineVars, circuit_breakers, health_status, rounds >>
    ELSE /\ rounds > 0
         /\ rounds' = rounds - 1
         /\ ForLoopFrom(1)

\* The monitor task runs for the first time.
MonitorFirstRun ==
    /\ monitor.pc = "created"
    /\ ~monitor.must_cancel
    /\ WhileLoop
    /\ UNCHANGED << engineVars, now, ticks, call, cbVars, histVars, workflows,
                    recovery_history, metrics, state_file, recoveries, starts,
                    is_running, shutdown_event, tasks, shutdowns, starter,
                    build >>

\* asyncio.sleep(1) of a recovery step is over: the next step's sleep, or
\* the end of auto_recover and the rest of the for loop.
MonitorSleepDone ==
    /\ monitor.pc = "sleep"
    /\ ~monitor.must_cancel
    /\ now >= monitor.deadline
    /\ IF monitor.step < Len(monitor.steps)
       THEN /\ monitor' = [monitor EXCEPT !.step = @ + 1,
                                          !.deadline = now + StepSeconds]
            /\ UNCHANGED << engineVars, call, metrics, recovery_history, log,
                            circuit_breakers, health_status >>
       ELSE /\ AutoRecoverFinish(MonitoredServices[monitor.index],
                                 "service_crash", monitor.steps)
            /\ ForLoopFrom(monitor.index + 1)
    /\ UNCHANGED << engineVars, now, ticks, cbVars, recovered, restarts, workflows,
                    state_file, recoveries, starts, is_running,
                    shutdown_event, tasks, shutdowns, starter, rounds,
                    build >>

\* wait_for times out after 15 seconds and the loop is left: break for
\* continue
MonitorTimeout_Breaks ==
    /\ monitor.pc = "wait"
    /\ ~monitor.must_cancel
    /\ now >= monitor.deadline
    /\ MonitorReturns
    /\ UNCHANGED << engineVars, now, ticks, call, cbVars, histVars, orchVars, is_running,
                    shutdown_event, tasks, shutdowns, starter, rounds,
                    build >>

\* wait_for times out after 15 seconds: continue.
MonitorTimeout ==
    /\ monitor.pc = "wait"
    /\ ~monitor.must_cancel
    /\ now >= monitor.deadline
    /\ WhileLoop
    /\ UNCHANGED << engineVars, now, ticks, call, cbVars, histVars, workflows,
                    recovery_history, metrics, state_file, recoveries, starts,
                    is_running, shutdown_event, tasks, shutdowns, starter,
                    build >>

\* shutdown_event.wait() returns inside wait_for: break.
MonitorWake ==
    /\ monitor.pc = "wait"
    /\ ~monitor.must_cancel
    /\ shutdown_event
    /\ MonitorReturns
    /\ UNCHANGED << engineVars, now, ticks, call, cbVars, histVars, orchVars, is_running,
                    shutdown_event, tasks, shutdowns, starter, rounds,
                    build >>

\* auto_recover when its asyncio.sleep(1) raises and 'except Exception'
\* catches it: the failure counter, the RecoveryEvent appended with the
\* whole step list and success False, the history trimmed, the result.
AutoRecoverInterrupted(service_name, failure_type, steps) ==
    /\ metrics' = [metrics EXCEPT !.failed_recoveries = @ + 1]
    /\ recovery_history' =
           LastN(Append(recovery_history,
                        RecoveryEvent(service_name, failure_type, now, steps,
                                      FALSE)),
                 HistoryLimit)
    /\ log' = Append(log, RecoveryEvent(service_name, failure_type, now,
                                        steps, FALSE))
    /\ call' = Call("auto_recover", service_name, FALSE)

\* The monitor task takes the CancelledError of task.cancel() at its await.
\* Before its first run the coroutine never starts; in wait_for the
\* error reaches 'except asyncio.CancelledError' and the coroutine returns;
\* in a recovery step it does the same unless CancelledError is an
\* Exception, which auto_recover catches before it goes on.
MonitorCancelled ==
    /\ monitor.must_cancel
    /\ monitor.pc \in {"created", "sleep", "wait"}
    /\ IF monitor.pc = "created"
       THEN /\ monitor' = [monitor EXCEPT !.pc = "cancelled",
                                          !.must_cancel = FALSE]
            /\ UNCHANGED << engineVars, call, metrics, recovery_history, log,
                            circuit_breakers, health_status >>
       ELSE IF monitor.pc = "sleep" /\ build.cancelled_is_exception
       THEN /\ AutoRecoverInterrupted(MonitoredServices[monitor.index],
                                      "service_crash", monitor.steps)
            /\ ForLoopFrom(monitor.index + 1)
       ELSE /\ MonitorReturns
            /\ UNCHANGED << engineVars, call, metrics, recovery_history, log,
                            circuit_breakers, health_status >>
    /\ UNCHANGED << engineVars, now, ticks, cbVars, recovered, restarts, workflows,
                    state_file, recoveries, starts, is_running,
                    shutdown_event, tasks, shutdowns, starter, rounds,
                    build >>

\* Some coroutine is ready to run: the event loop does not wait for a timer.
Runnable ==
    \/ monitor.pc = "created"
    \/ monitor.pc \in {"sleep", "wait"} /\ monitor.must_cancel
    \/ monitor.pc = "wait" /\ shutdown_event
    \/ starter = "waiting" /\ shutdown_event
    \/ \E k \in 1..Len(shutdowns) : shutdowns[k].pc = "gather" /\ MonitorDone

\* Nothing is ready: time passes until the monitor's timer is due.
Advance ==
    /\ monitor.pc \in {"sleep", "wait"}
    /\ now < monitor.deadline
    /\ ~Runnable
    /\ now' = monitor.deadline
    /\ UNCHANGED << engineVars, ticks, call, cbVars, histVars, orchVars, lifeVars >>

\* The record register_workflow writes at time t.
NewWorkflow(config, t) ==
    [ config      |-> config,
      status      |-> "initialized",
      last_run    |-> NoTime,
      run_count   |-> 0,
      error_count |-> 0,
      created_at  |-> t ]

\* The registry after start() has registered the default workflows from
\* the i-th on.
RECURSIVE RegisterDefaults(_, _, _)
RegisterDefaults(wf, i, t) ==
    IF i > Len(DefaultWorkflows)
    THEN wf
    ELSE RegisterDefaults(Put(wf, DefaultWorkflows[i].id,
                              NewWorkflow(DefaultWorkflows[i].config, t)),
                          i + 1, t)

\* The registry after start_workflow has returned True for every workflow.
StartedAll(wf, t) ==
    [ id \in DOMAIN wf |-> [wf[id] EXCEPT !.status = "running",
                                         !.last_run = t,
                                         !.run_count = @ + 1] ]

\* The registry after stop_workflow has been called for every workflow.
StoppedAll(wf) ==
    [ id \in DOMAIN wf |-> [wf[id] EXCEPT !.status = "stopped"] ]

\* asyncio.run(orchestrator.start()) on an orchestrator just constructed:
\* start() creates the monitor task, registers the default workflows (each
\* registration saving the state), starts every workflow, and suspends in
\* shutdown_event.wait().
StartCall ==
    /\ starter = "idle"
    /\ shutdowns = << >>
    /\ workflows = << >>
    /\ tasks' = Append(tasks, "monitor")
    /\ monitor' = [NoMonitor EXCEPT !.pc = "created"]
    /\ workflows' = StartedAll(RegisterDefaults(workflows, 1, now), now)
    /\ circuit_breakers' =
           [ id \in DOMAIN workflows' \cup DOMAIN circuit_breakers |->
               IF id \in DOMAIN workflows'
               THEN CircuitBreaker(DefaultFailureThreshold, DefaultTimeout,
                                   DefaultHalfOpenMaxCalls)
               ELSE circuit_breakers[id] ]
    /\ metrics' = [metrics EXCEPT !.total_workflows =
                                      @ + Len(DefaultWorkflows)]
    /\ state_file' \in SaveState(state_file,
                                 RegisterDefaults(workflows, 1, now),
                                 recovery_history, metrics', now)
    /\ starts' = [ id \in DOMAIN workflows' |-> 1 ]
    /\ starter' = "waiting"
    /\ call' = Call("start_workflow",
                    DefaultWorkflows[Len(DefaultWorkflows)].id, TRUE)
    /\ UNCHANGED << engineVars, now, ticks, cbVars, histVars, health_status,
                    recovery_history, recoveries, is_running, shutdown_event,
                    shutdowns, rounds, build >>

\* The keys of self.metrics whose values are datetime objects.
DatetimeKeys == {"uptime_start"}

\* json.dumps(status['metrics'], indent=2): a datetime value is not JSON
\* serializable and makes it raise TypeError.
JsonDumps(doc) ==
    IF \E k \in DOMAIN doc : k \in DatetimeKeys THEN "TypeError" ELSE "ok"

\* How a graceful_shutdown that has reached its last lines ends.
ShutdownOutcome ==
    IF JsonDumps(SystemStatus.metrics) = "ok" THEN "returned" ELSE "raised"

\* graceful_shutdown(name) from its first line to the await of
\* asyncio.gather, or to its end when self.tasks is empty: flag and event,
\* every workflow stopped, every task that is not done cancelled.
ShutdownBegin(name, by) ==
    /\ is_running' = FALSE
    /\ shutdown_event' = TRUE
    /\ workflows' = StoppedAll(workflows)
    /\ monitor' = IF tasks # << >> /\ ~MonitorDone
                  THEN [monitor EXCEPT !.must_cancel = TRUE]
                  ELSE monitor
    /\ IF tasks # << >>
       THEN /\ shutdowns' = Append(shutdowns,
                                   [name |-> name, by |-> by, pc |-> "gather"])
            /\ UNCHANGED << engineVars, state_file, call >>
       ELSE /\ state_file' \in SaveState(state_file, workflows',
                                         recovery_history, metrics, now)
            /\ shutdowns' = Append(shutdowns,
                                   [name |-> name, by |-> by,
                                    pc |-> ShutdownOutcome])
            /\ call' = Call("graceful_shutdown", name, FALSE)

\* An API caller awaits graceful_shutdown(name) on an orchestrator whose
\* start() was not called, as test_graceful_shutdown does.
DirectShutdown(name) ==
    /\ starter = "idle"
    /\ Len(shutdowns) < MaxShutdowns
    /\ ShutdownBegin(name, "api")
    /\ UNCHANGED << engineVars, now, ticks, cbVars, histVars, circuit_breakers,
                    health_status, recovery_history, metrics, recoveries,
                    starts, tasks, starter, rounds, build >>

\* SIGTERM or SIGINT: the handler creates a task that runs
\* graceful_shutdown(signal name).
SignalShutdown(name) ==
    /\ starter \in {"waiting", "shutdown"}
    /\ Cardinality({k \in 1..Len(shutdowns) : shutdowns[k].by = "signal"})
          < MaxSignals
    /\ ShutdownBegin(name, "signal")
    /\ UNCHANGED << engineVars, now, ticks, cbVars, histVars, circuit_breakers,
                    health_status, recovery_history, metrics, recoveries,
                    starts, tasks, starter, rounds, build >>

\* start() wakes from shutdown_event.wait() and awaits
\* graceful_shutdown("Manual").
StartWakes ==
    /\ starter = "waiting"
    /\ shutdown_event
    /\ ShutdownBegin("Manual", "start")
    /\ starter' = "shutdown"
    /\ UNCHANGED << engineVars, now, ticks, cbVars, histVars, circuit_breakers,
                    health_status, recovery_history, metrics, recoveries,
                    starts, tasks, rounds, build >>

\* asyncio.gather(*self.tasks, return_exceptions=True) is over for the k-th
\* graceful_shutdown, those that began before it having gone on first: the
\* state is saved, the final metrics are dumped.  When it is the call made
\* by start(), start() ends as it does and asyncio.run cancels the
\* shutdown tasks that are still pending.
ShutdownResume(k) ==
    /\ shutdowns[k].pc = "gather"
    /\ MonitorDone
    /\ \A j \in 1..(k - 1) : shutdowns[j].pc # "gather"
    /\ state_file' \in SaveState(state_file, workflows, recovery_history,
                                 metrics, now)
    /\ call' = Call("graceful_shutdown", shutdowns[k].name, FALSE)
    /\ IF shutdowns[k].by = "start"
       THEN /\ starter' = ShutdownOutcome
            /\ shutdowns' =
                   [ j \in 1..Len(shutdowns) |->
                       IF j = k
                       THEN [shutdowns[j] EXCEPT !.pc = ShutdownOutcome]
                       ELSE IF shutdowns[j].pc = "gather"
                       THEN [shutdowns[j] EXCEPT !.pc = "cancelled"]
                       ELSE shutdowns[j] ]
       ELSE /\ shutdowns' = [shutdowns EXCEPT ![k].pc = ShutdownOutcome]
            /\ UNCHANGED starter
    /\ UNCHANGED << engineVars, now, ticks, cbVars, histVars, workflows, circuit_breakers,
                    health_status, recovery_history, metrics, recoveries,
                    starts, is_running, shutdown_event, tasks, monitor,
                    rounds, build >>

\* The signals start() installs a handler for.
SignalNames == {"SIGTERM", "SIGINT"}

\* The workflows API callers register and start before a direct shutdown.
NextLife ==
    \/ \E id \in WorkflowIds, config \in Configs :
          /\ starter = "idle" /\ shutdowns = << >>
          /\ RegisterWorkflow(id, config)
    \/ \E id \in WorkflowIds :
          /\ starter = "idle" /\ shutdowns = << >>
          /\ StartWorkflow(id)
    \/ \E name \in {"TEST"} : DirectShutdown(name)
    \/ StartCall
    \/ MonitorFirstRun
    \/ MonitorSleepDone
    \/ MonitorTimeout
    \/ MonitorWake
    \/ MonitorCancelled
    \/ Advance
    \/ \E name \in SignalNames : SignalShutdown(name)
    \/ StartWakes
    \/ \E k \in 1..Len(shutdowns) : ShutdownResume(k)

SpecLife == InitLife /\ [][NextLife]_vars

\* SpecLate: the behaviours of SpecLife with callers that register and
\* start workflows at any time: before a shutdown, while a
\* graceful_shutdown is suspended in asyncio.gather, and after it.
NextLate ==
    \/ \E id \in WorkflowIds, config \in Configs : RegisterWorkflow(id, config)
    \/ \E id \in WorkflowIds \cup {DefaultWorkflows[1].id} : StartWorkflow(id)
    \/ \E name \in {"TEST"} : DirectShutdown(name)
    \/ StartCall
    \/ MonitorFirstRun
    \/ MonitorSleepDone
    \/ MonitorTimeout
    \/ MonitorWake
    \/ MonitorCancelled
    \/ Advance
    \/ \E name \in SignalNames : SignalShutdown(name)
    \/ StartWakes
    \/ \E k \in 1..Len(shutdowns) : ShutdownResume(k)

SpecLate == InitLife /\ [][NextLate]_vars

NextMon ==
    \/ StartCall
    \/ MonitorFirstRun
    \/ MonitorSleepDone
    \/ MonitorTimeout
    \/ Advance

SpecMon == InitMon /\ [][NextMon]_vars

\* SpecMonLive: the monitor loop on an orchestrator whose callers have
\* health-checked the first monitored service before start(), every probe
\* failing, so that its breaker may be OPEN when the monitor begins.
InitMonLive ==
    /\ now = 0
    /\ ticks = 0
    /\ call = NoCall
    /\ cb = CircuitBreaker(DefaultFailureThreshold, DefaultTimeout,
                           DefaultHalfOpenMaxCalls)
    /\ consec = 0
    /\ run = NoRun
    /\ workflows = << >>
    /\ health_status = << >>
    /\ recovery_history = << >>
    /\ circuit_breakers = << >>
    /\ state_file = << >>
    /\ metrics = [total_workflows |-> 0, successful_recoveries |-> 0,
                  failed_recoveries |-> 0, uptime_start |-> 0]
    /\ recoveries = << >>
    /\ starts = << >>
    /\ log = << >>
    /\ recovered = 0
    /\ restarts = 0
    /\ is_running = TRUE
    /\ shutdown_event = FALSE
    /\ tasks = << >>
    /\ monitor = NoMonitor
    /\ shutdowns = << >>
    /\ starter = "idle"
    /\ rounds = MaxLiveRounds
    /\ EngineIdle
    /\ build = [cancelled_is_exception |-> FALSE, disk |-> "ok"]

\* A caller awaits health_check on the first monitored service before
\* start() is run, and the probe raises.
FailedCheckBeforeStart ==
    /\ starter = "idle"
    /\ BreakerOf(circuit_breakers, MonitoredServices[1]).state # OPEN
    /\ HealthCheck(MonitoredServices[1], TRUE)

\* start() is run once the first monitored service's breaker has tripped.
StartTripped ==
    /\ BreakerOf(circuit_breakers, MonitoredServices[1]).state = OPEN
    /\ StartCall

NextMonLive ==
    \/ FailedCheckBeforeStart
    \/ StartTripped
    \/ MonitorFirstRun
    \/ MonitorSleepDone
    \/ MonitorTimeout
    \/ Advance

SpecMonLive == InitMonLive /\ [][NextMonLive]_vars

\* The event loop runs the monitor whenever it is ready and fires its timers
\* when they are due; start() is run; callers may stop checking.
FairMon ==
    /\ WF_vars(StartTripped)
    /\ WF_vars(MonitorFirstRun)
    /\ WF_vars(MonitorSleepDone)
    /\ WF_vars(MonitorTimeout)
    /\ WF_vars(Advance)

SpecMonLiveFair == SpecMonLive /\ FairMon

\* SpecPersist: an orchestrator on a disk that may fail.  The behaviours
\* begin like those of Spec, with no snapshot file, the disk in any mode.
InitPersist ==
    /\ now = 0
    /\ ticks = 0
    /\ call = NoCall
    /\ cb = CircuitBreaker(DefaultFailureThreshold, DefaultTimeout,
                           DefaultHalfOpenMaxCalls)
    /\ consec = 0
    /\ run = NoRun
    /\ workflows = << >>
    /\ health_status = << >>
    /\ recovery_history = << >>
    /\ circuit_breakers = << >>
    /\ state_file = << >>
    /\ metrics = [total_workflows |-> 0, successful_recoveries |-> 0,
                  failed_recoveries |-> 0, uptime_start |-> 0]
    /\ recoveries = << >>
    /\ starts = << >>
    /\ log = << >>
    /\ recovered = 0
    /\ restarts = 0
    /\ is_running = TRUE
    /\ shutdown_event = FALSE
    /\ tasks = << >>
    /\ monitor = NoMonitor
    /\ shutdowns = << >>
    /\ starter = "idle"
    /\ rounds = 0
    /\ EngineIdle
    /\ build \in {[cancelled_is_exception |-> FALSE, disk |-> d] :
                      d \in DiskModes}

\* A new process constructs ControlPlaneOrchestrator(state_file) on the
\* file as the last process left it.
Construct ==
    /\ restarts < MaxRestarts
    /\ restarts' = restarts + 1
    /\ ConstructOn(state_file)
    /\ UNCHANGED << engineVars, state_file, now, ticks, cbVars, starts, recovered,
                    monitor, shutdowns, starter, rounds, build >>

\* The disk starts or stops failing.
DiskTurns ==
    /\ \E d \in DiskModes \ {build.disk} :
          build' = [build EXCEPT !.disk = d]
    /\ UNCHANGED << engineVars, now, ticks, call, cbVars, histVars, orchVars, is_running,
                    shutdown_event, tasks, monitor, shutdowns, starter,
                    rounds >>

NextPersist ==
    \/ \E id \in WorkflowIds, config \in Configs : RegisterWorkflow(id, config)
    \/ \E id \in WorkflowIds : StartWorkflow(id)
    \/ \E name \in {"TEST"} : DirectShutdown(name)
    \/ Construct
    \/ DiskTurns

SpecPersist == InitPersist /\ [][NextPersist]_vars

\* The event loop runs every coroutine that is ready and fires every timer
\* that is due; signals and API calls may never come.
FairLife ==
    /\ WF_vars(MonitorFirstRun)
    /\ WF_vars(MonitorSleepDone)
    /\ WF_vars(MonitorTimeout)
    /\ WF_vars(MonitorWake)
    /\ WF_vars(MonitorCancelled)
    /\ WF_vars(Advance)
    /\ WF_vars(StartWakes)
    /\ WF_vars(\E k \in 1..Len(shutdowns) : ShutdownResume(k))

SpecLifeFair == SpecLife /\ FairLife

---------------------------------------------------------------------------
(* class RevenueStream and class QuantumRevenueEngine                       *)
(* (src/autonomous-orchestrator/quantum-revenue-engine-enhanced.py):        *)
(* SpecEngine.  One of the engine's streams with the task that runs        *)
(* process_stream on it, the webhook listener task and graceful_shutdown.   *)
(* Every action runs one coroutine from one suspension to the next; the     *)
(* sleeps end in any order.                                                 *)

\* process_event, lines 49-52: the stream after an attempt that succeeds
ProcessEventSuccess(s) ==
    [s EXCEPT !.total_processed = @ + 1,
              !.status = ACTIVE,
              !.retry_count = 0]

\* process_event marking the stream RECOVERING after its last attempt too:
\* attempt < max_retries for attempt < max_retries - 1
ProcessEventFailure_AlwaysRecovering(s, attempt) ==
    [s EXCEPT !.retry_count = attempt + 1,
              !.total_errors = @ + 1,
              !.last_error = "Simulated processing failure",
              !.status = IF attempt < s.max_retries
                         THEN RECOVERING ELSE ERROR]

\* process_event, lines 58-69: the stream after the attempt-th attempt
\* (counted from 0) raised
ProcessEventFailure(s, attempt) ==
    [s EXCEPT !.retry_count = attempt + 1,
              !.total_errors = @ + 1,
              !.last_error = "Simulated processing failure",
              !.status = IF attempt < s.max_retries - 1
                         THEN RECOVERING ELSE ERROR]

\* Queue.put_nowait(item) on a queue that is not full
put_nowait(q) == [items |-> q.items + 1, unfinished |-> q.unfinished + 1]

\* Queue.get() on a queue that is not empty: it returns without suspending
get(q) == [q EXCEPT !.items = @ - 1]

\* Queue.task_done()
task_done(q) == [q EXCEPT !.unfinished = @ - 1]

\* QuantumRevenueEngine() with a stream of any max_retries from 1 up; the
\* orchestrator is not used.
InitEngine ==
    /\ now = 0
    /\ ticks = 0
    /\ call = NoCall
    /\ cb = CircuitBreaker(DefaultFailureThreshold, DefaultTimeout,
                           DefaultHalfOpenMaxCalls)
    /\ consec = 0
    /\ run = NoRun
    /\ OrchIdle
    /\ \E max_retries \in 1..MaxRetries : stream = RevenueStream(max_retries)
    /\ stream_task = NoStreamTask
    /\ engine_is_running = TRUE
    /\ webhook_queue = EmptyQueue
    /\ listener = NoListener
    /\ engine_shutdown = "idle"

OrchUnused ==
    UNCHANGED << now, ticks, call, cbVars, orchVars, histVars, lifeVars >>

\* start() up to its await of asyncio.gather: the tasks are created.
EngineStart ==
    /\ stream_task.pc = "none"
    /\ listener.pc = "none"
    /\ stream_task' = [stream_task EXCEPT !.pc = "created"]
    /\ listener' = [listener EXCEPT !.pc = "created"]
    /\ UNCHANGED << stream, engine_is_running, webhook_queue,
                    engine_shutdown >>
    /\ OrchUnused

\* process_stream at 'while self.is_running', when first run and after its
\* sleep between events: the task ends, or it awaits stream.process_event(),
\* which runs to the sleep of its first attempt (or returns False at once
\* when range(max_retries) is empty), or it skips a PAUSED stream.
StreamTaskRuns ==
    /\ stream_task.pc \in {"created", "pause"}
    /\ IF ~engine_is_running
       THEN stream_task' = [stream_task EXCEPT !.pc = "done"]
       ELSE /\ stream_task.events < MaxEvents
            /\ IF stream.status = PAUSED
               THEN stream_task' = [stream_task EXCEPT !.pc = "pause"]
               ELSE IF stream.max_retries < 1
               THEN stream_task' =
                        [stream_task EXCEPT !.pc = "pause", !.ret = "false",
                                            !.attempt = 0,
                                            !.retry_delay = InitialRetryDelay,
                                            !.attempts = 0, !.failures = 0,
                                            !.p0 = stream.total_processed,
                                            !.e0 = stream.total_errors,
                                            !.events = @ + 1]
               ELSE stream_task' =
                        [stream_task EXCEPT !.pc = "processing",
                                            !.ret = "none",
                                            !.attempt = 0,
                                            !.retry_delay = InitialRetryDelay,
                                            !.attempts = 1, !.failures = 0,
                                            !.p0 = stream.total_processed,
                                            !.e0 = stream.total_errors,
                                            !.events = @ + 1]
    /\ UNCHANGED << stream, engine_is_running, webhook_queue, listener,
                    engine_shutdown >>
    /\ OrchUnused

\* asyncio.sleep(0.5) of an attempt is over and random.random() is drawn:
\* the attempt succeeds and process_event returns True, or it raises and
\* process_event sleeps retry_delay before the next attempt, or, after the
\* last attempt, returns False.  process_stream then sleeps between events.
AttemptEnds ==
    /\ stream_task.pc = "processing"
    /\ \E fails \in BOOLEAN :
          IF ~fails
          THEN /\ stream' = ProcessEventSuccess(stream)
               /\ stream_task' = [stream_task EXCEPT !.pc = "pause",
                                                     !.ret = "true"]
          ELSE /\ stream' = ProcessEventFailure(stream, stream_task.attempt)
               /\ IF stream_task.attempt < stream.max_retries - 1
                  THEN stream_task' =
                           [stream_task EXCEPT !.pc = "backoff",
                                               !.failures = @ + 1]
                  ELSE stream_task' =
                           [stream_task EXCEPT !.pc = "pause",
                                               !.ret = "false",
                                               !.failures = @ + 1]
    /\ UNCHANGED << engine_is_running, webhook_queue, listener,
                    engine_shutdown >>
    /\ OrchUnused

\* asyncio.sleep(retry_delay) is over: the delay doubles and the next
\* attempt begins.
BackoffEnds ==
    /\ stream_task.pc = "backoff"
    /\ stream_task' = [stream_task EXCEPT !.pc = "processing",
                                          !.attempt = @ + 1,
                                          !.retry_delay = @ * BackoffFactor,
                                          !.attempts = @ + 1]
    /\ UNCHANGED << stream, engine_is_running, webhook_queue, listener,
                    engine_shutdown >>
    /\ OrchUnused

\* The listener going to sleep with the webhook it received still queued:
\* a suspension between put_nowait and get
ListenerRuns_SleepsBeforeGet ==
    /\ listener.pc \in {"created", "sleep"}
    /\ IF ~engine_is_running
       THEN /\ listener' = [listener EXCEPT !.pc = "done"]
            /\ UNCHANGED webhook_queue
       ELSE \E arrives \in BOOLEAN :
               /\ arrives => listener.handled < MaxWebhooks
               /\ webhook_queue' =
                      IF arrives /\ webhook_queue.items < QueueMaxSize
                      THEN put_nowait(webhook_queue)
                      ELSE webhook_queue
               /\ listener' = [listener EXCEPT !.pc = "sleep",
                                               !.handled =
                                                   IF arrives THEN @ + 1 ELSE @]
    /\ UNCHANGED << stream, stream_task, engine_is_running, engine_shutdown >>
    /\ OrchUnused

\* payment_webhook_listener at 'while self.is_running', when first run and
\* after its sleep: the task ends, or a webhook may arrive and is queued
\* (dropped when the queue is full), a queued webhook is taken and marked
\* done, and the task sleeps 5 seconds.
ListenerRuns ==
    /\ listener.pc \in {"created", "sleep"}
    /\ IF ~engine_is_running
       THEN /\ listener' = [listener EXCEPT !.pc = "done"]
            /\ UNCHANGED webhook_queue
       ELSE \E arrives \in BOOLEAN :
               LET queued == IF arrives /\ webhook_queue.items < QueueMaxSize
                             THEN put_nowait(webhook_queue)
                             ELSE webhook_queue
               IN  /\ arrives => listener.handled < MaxWebhooks
                   /\ webhook_queue' = IF queued.items # 0
                                       THEN task_done(get(queued))
                                       ELSE queued
                   /\ listener' = [listener EXCEPT !.pc = "sleep",
                                                   !.handled =
                                                       IF queued.items # 0
                                                       THEN @ + 1 ELSE @]
    /\ UNCHANGED << stream, stream_task, engine_is_running, engine_shutdown >>
    /\ OrchUnused

\* graceful_shutdown() of the engine: it clears is_running and, when the
\* queue is not empty, suspends in webhook_queue.join() until no task is
\* unfinished; then it reads the metrics and returns.
EngineGracefulShutdown ==
    /\ IF engine_shutdown = "idle"
       THEN /\ engine_is_running' = FALSE
            /\ engine_shutdown' = IF webhook_queue.items # 0
                                  THEN "join" ELSE "done"
       ELSE /\ engine_shutdown = "join"
            /\ webhook_queue.unfinished = 0
            /\ engine_shutdown' = "done"
            /\ UNCHANGED engine_is_running
    /\ UNCHANGED << stream, stream_task, webhook_queue, listener >>
    /\ OrchUnused

NextEngine ==
    \/ EngineStart
    \/ StreamTaskRuns
    \/ AttemptEnds
    \/ BackoffEnds
    \/ ListenerRuns
    \/ EngineGracefulShutdown

SpecEngine == InitEngine /\ [][NextEngine]_vars

---------------------------------------------------------------------------
(* Claims about the CircuitBreaker, checked under SpecCB *)

\* C1: after failure_threshold consecutive record_failure() calls with no
\* record_success() in between the state is OPEN, and a can_execute() issued
\* before the timeout has elapsed returns False and leaves the state OPEN.
C1_OpenAtThreshold ==
    /\ [](call.op = "record_failure" /\ consec >= cb.failure_threshold
            => cb.state = OPEN)
    /\ [][(/\ call.op = "record_failure"
           /\ consec >= cb.failure_threshold
           /\ now - cb.last_failure_time < cb.timeout
           /\ CBCanExecute)
          => (call'.ret = FALSE /\ cb'.state = OPEN)]_vars

C1_Witness ==
    /\ call.op = "can_execute" /\ call.ret = FALSE
    /\ cb.failure_threshold >= 2
    /\ consec = cb.failure_threshold
    /\ cb.failure_count = cb.failure_threshold
    /\ cb.state = OPEN

\* C2 (as claimed): on an OPEN breaker whose timeout has elapsed since
\* last_failure_time, can_execute() returns True, moves to HALF_OPEN and
\* resets half_open_calls; on a HALF_OPEN breaker can_execute() returns True
\* and changes nothing.
C2_HalfOpenAfterTimeout ==
    /\ [][(/\ cb.state = OPEN
           /\ cb.last_failure_time # NoTime
           /\ now - cb.last_failure_time >= cb.timeout
           /\ CBCanExecute)
          => (/\ call'.ret = TRUE
              /\ cb'.state = HALF_OPEN
              /\ cb'.half_open_calls = 0)]_vars
    /\ [][(cb.state = HALF_OPEN /\ CBCanExecute)
          => (call'.ret = TRUE /\ cb' = cb)]_vars

\* C3 (as claimed): counted from any HALF_OPEN state, half_open_max_calls
\* record_success() calls close the breaker with both counters 0, and any
\* smaller number leaves it HALF_OPEN with failure_count unchanged.
C3_AsClaimed ==
    run.n > 0 =>
        IF run.n >= cb.half_open_max_calls
        THEN cb.state = CLOSED /\ cb.failure_count = 0 /\ cb.half_open_calls = 0
        ELSE cb.state = HALF_OPEN /\ cb.failure_count = run.fc0

\* C3 (amended): counted from a HALF_OPEN state whose half_open_calls is c0,
\* the breaker is CLOSED with both counters 0 once c0 plus the number of
\* record_success() calls reaches half_open_max_calls (so half_open_max_calls
\* calls always suffice), and until then it stays HALF_OPEN with
\* failure_count unchanged.
C3_ClosesAfterSuccesses ==
    run.n > 0 =>
        IF run.c0 + run.n >= cb.half_open_max_calls
        THEN cb.state = CLOSED /\ cb.failure_count = 0 /\ cb.half_open_calls = 0
        ELSE /\ cb.state = HALF_OPEN
             /\ cb.failure_count = run.fc0
             /\ cb.half_open_calls = run.c0 + run.n

C3_Witness ==
    /\ call.op = "record_success"
    /\ cb.half_open_max_calls >= 2
    /\ run.c0 = 0 /\ run.n = cb.half_open_max_calls
    /\ run.fc0 > 0
    /\ cb.state = CLOSED

\* C4 (as claimed): in every reachable HALF_OPEN state a single
\* record_failure() moves the breaker to OPEN.
C4_FailureReopens ==
    [][(cb.state = HALF_OPEN /\ CBRecordFailure) => cb'.state = OPEN]_vars

---------------------------------------------------------------------------
(* Claims about the workflow registry, checked under Spec *)

\* The bound breaker of id refuses: it is OPEN and its timeout has not elapsed.
BreakerRefuses(id) ==
    /\ Has(circuit_breakers, id)
    /\ circuit_breakers[id].state = OPEN
    /\ now - circuit_breakers[id].last_failure_time < circuit_breakers[id].timeout

\* C5: start_workflow(id) on a registered workflow whose bound breaker is OPEN
\* with the timeout not yet elapsed returns False and leaves the workflow
\* record (status, last_run, run_count) as it was.
C5_StartRefusedWhenOpen ==
    [][\A id \in Targets :
          (Has(workflows, id) /\ BreakerRefuses(id) /\ StartWorkflow(id))
          => (call'.ret = FALSE /\ workflows' = workflows)]_vars

C5_Witness ==
    /\ call.op = "start_workflow" /\ call.ret = FALSE
    /\ Has(workflows, call.arg)
    /\ workflows[call.arg].run_count = 1
    /\ BreakerRefuses(call.arg)
    /\ now > circuit_breakers[call.arg].last_failure_time

\* C6: start_workflow(id) for an id that is not registered returns False and
\* changes nothing: registry, breakers, health records, recovery history,
\* metrics and the snapshot file stay as they were.
C6_StartUnknownChangesNothing ==
    [][\A id \in Targets :
          (~Has(workflows, id) /\ StartWorkflow(id))
          => (call'.ret = FALSE /\ UNCHANGED orchVars)]_vars

\* The unknown name has a breaker, from health checks, that is OPEN with its
\* timeout elapsed: a can_execute() would have moved it.
C6_Witness ==
    /\ call.op = "start_workflow" /\ call.ret = FALSE
    /\ ~Has(workflows, call.arg)
    /\ Has(circuit_breakers, call.arg)
    /\ circuit_breakers[call.arg].state = OPEN
    /\ now - circuit_breakers[call.arg].last_failure_time
          >= circuit_breakers[call.arg].timeout

\* The breaker bound to id, if any, permits execution now.
BreakerPermits(id) ==
    Has(circuit_breakers, id) => can_execute(circuit_breakers[id], now).ret

\* C7: on a registered workflow whose breaker permits execution
\* start_workflow returns True, sets status running and adds exactly 1 to
\* run_count; stop_workflow leaves run_count as it was; run_count is the
\* number of start_workflow calls that returned True since the registration.
C7_RunCountCountsStarts ==
    /\ [](\A id \in DOMAIN workflows : workflows[id].run_count = starts[id])
    /\ [][\A id \in Targets :
             (Has(workflows, id) /\ BreakerPermits(id) /\ StartWorkflow(id))
             => (/\ call'.ret = TRUE
                 /\ workflows'[id].status = "running"
                 /\ workflows'[id].run_count = workflows[id].run_count + 1)]_vars
    /\ [][\A id \in Targets :
             (Has(workflows, id) /\ StopWorkflow(id))
             => workflows'[id].run_count = workflows[id].run_count]_vars

\* The second start of a workflow that was running, then stopped.
C7_Witness ==
    /\ call.op = "start_workflow" /\ call.ret = TRUE
    /\ workflows[call.arg].status = "running"
    /\ workflows[call.arg].run_count = 2
    /\ starts[call.arg] = 2

\* C8: stop_workflow(id) returns False and changes nothing when id is
\* unknown; otherwise it returns True and sets status stopped, whatever the
\* status was; a second stop_workflow(id) returns True and leaves the
\* orchestrator as the first left it.
C8_StopIdempotent ==
    /\ [][\A id \in Targets :
             StopWorkflow(id)
             => IF Has(workflows, id)
                THEN /\ call'.ret = TRUE
                     /\ workflows' = [workflows EXCEPT ![id].status = "stopped"]
                ELSE call'.ret = FALSE /\ UNCHANGED orchVars]_vars
    /\ [][\A id \in Targets :
             (/\ call.op = "stop_workflow" /\ call.arg = id /\ call.ret = TRUE
              /\ StopWorkflow(id))
             => (call'.ret = TRUE /\ UNCHANGED orchVars)]_vars

\* A second stop_workflow of a workflow that had run.
C8_Witness ==
    /\ call.op = "stop_workflow" /\ call.ret = TRUE /\ call.rep = 2
    /\ workflows[call.arg].status = "stopped"
    /\ workflows[call.arg].run_count > 0

\* The record register_workflow creates.
FreshRecord(w, config) ==
    /\ w.config = config
    /\ w.status = "initialized"
    /\ w.last_run = NoTime
    /\ w.run_count = 0
    /\ w.error_count = 0

\* C9: after register_workflow(id, cfg) the registry holds id with status
\* initialized, run_count 0, error_count 0 and last_run None, a CLOSED breaker
\* with failure_count 0 is bound to id, and a get_system_status() issued next
\* shows exactly that record and that breaker.
C9_RegisterThenStatus ==
    /\ [][\A id \in WorkflowIds, config \in Configs :
             RegisterWorkflow(id, config)
             => (/\ Has(workflows', id)
                 /\ FreshRecord(workflows'[id], config)
                 /\ Has(circuit_breakers', id)
                 /\ circuit_breakers'[id].state = CLOSED
                 /\ circuit_breakers'[id].failure_count = 0)]_vars
    /\ [][(call.op = "register_workflow" /\ GetSystemStatus)
          => (/\ call'.doc[1].workflows[call.arg] = workflows[call.arg]
              /\ FreshRecord(call'.doc[1].workflows[call.arg],
                             workflows[call.arg].config)
              /\ call'.doc[1].circuit_breakers[call.arg].state = CLOSED
              /\ call'.doc[1].circuit_breakers[call.arg].failure_count = 0)]_vars

\* The status after the first registration of a name whose earlier breaker,
\* made by health checks, had opened.
C9_Witness ==
    /\ call.op = "get_system_status"
    /\ metrics.total_workflows = 1
    /\ \E id \in DOMAIN call.doc[1].workflows :
          /\ FreshRecord(call.doc[1].workflows[id], "cfg")
          /\ call.doc[1].circuit_breakers[id].state = CLOSED
          /\ call.doc[1].circuit_breakers[id].failure_count = 0
          /\ Has(health_status, id)
          /\ health_status[id].circuit_breaker.state = OPEN

---------------------------------------------------------------------------
(* Claims about auto_recover, checked under SpecRec *)

\* The step table of the specification (section 4.3).
StepTable(classification) ==
    CASE classification = "service_crash" ->
             << "restart_service", "verify_health", "restore_connections" >>
      [] classification = "memory_leak" ->
             << "clear_cache", "restart_service", "scale_resources" >>
      [] classification = "network_failure" ->
             << "reset_connections", "update_routing", "verify_connectivity" >>
      [] classification = "database_connection" ->
             << "reconnect_pool", "verify_credentials", "test_queries" >>
      [] OTHER -> << "restart_service" >>

\* This step appends exactly one RecoveryEvent, for (target, classification),
\* with the table's steps and success, and returns True.
AppendsEvent(target, classification) ==
    /\ Len(recovery_history') = Len(recovery_history) + 1
    /\ SubSeq(recovery_history', 1, Len(recovery_history)) = recovery_history
    /\ LET ev == recovery_history'[Len(recovery_history')]
       IN  /\ ev.service = target
           /\ ev.failure_type = classification
           /\ ev.steps_executed = StepTable(classification)
           /\ ev.success = TRUE
    /\ call'.op = "auto_recover" /\ call'.arg = target /\ call'.ret = TRUE

\* C10: an auto_recover(target, classification) that runs to completion
\* appends exactly one RecoveryEvent, at its completion and not before, whose
\* target and classification are the arguments, whose steps are the table
\* entry of the classification (a classification not in the table having the
\* single step restart_service), and whose success flag is True, which it
\* returns.
C10_RecoveryEvent ==
    /\ [][\A target \in Services, classification \in FailureTypes :
             AutoRecoverBegin(target, classification)
             => (/\ recovery_history' = recovery_history
                 /\ recoveries' = Append(recoveries, recoveries'[Len(recoveries')])
                 /\ recoveries'[Len(recoveries')].service_name = target
                 /\ recoveries'[Len(recoveries')].failure_type = classification)]_vars
    /\ [][\A k \in 1..Len(recoveries) :
             AutoRecoverResume(k)
             => IF recoveries[k].step < Len(StepTable(recoveries[k].failure_type))
                THEN recovery_history' = recovery_history
                ELSE AppendsEvent(recoveries[k].service_name,
                                  recoveries[k].failure_type)]_vars

\* A service_crash recovery and a recovery of an unknown classification have
\* both completed.
C10_Witness ==
    /\ call.op = "auto_recover" /\ call.ret = TRUE
    /\ \E i \in 1..Len(recovery_history) :
          /\ recovery_history[i].failure_type = "service_crash"
          /\ recovery_history[i].steps_executed =
                << "restart_service", "verify_health", "restore_connections" >>
          /\ recovery_history[i].success = TRUE
    /\ \E i \in 1..Len(recovery_history) :
          /\ recovery_history[i].failure_type = "disk_full"
          /\ recovery_history[i].steps_executed = << "restart_service" >>

---------------------------------------------------------------------------
(* Claims about health_check, checked under Spec *)

\* C17: when the target's breaker refuses execution (OPEN, timeout not
\* elapsed), health_check returns False whatever the probe would have done,
\* leaves the breaker as it was (failure_count, last_failure_time, state) and
\* does not overwrite the target's HealthRecord.
C17_RefusedCheckSkipsProbe ==
    [][\A name \in Services, probe_fails \in BOOLEAN :
          (BreakerRefuses(name) /\ HealthCheck(name, probe_fails))
          => (/\ call'.ret = FALSE
              /\ circuit_breakers'[name].failure_count =
                     circuit_breakers[name].failure_count
              /\ circuit_breakers'[name].last_failure_time =
                     circuit_breakers[name].last_failure_time
              /\ circuit_breakers' = circuit_breakers
              /\ health_status' = health_status)]_vars

\* A health_check was refused some time after the failed probe whose
\* HealthRecord is still there.
C17_Witness ==
    /\ call.op = "health_check" /\ call.ret = FALSE
    /\ ~call.doc[1].probed
    /\ BreakerRefuses(call.arg)
    /\ Has(health_status, call.arg)
    /\ health_status[call.arg].status = "unhealthy"
    /\ health_status[call.arg].last_check < now

\* C19: when the breaker permits execution, a probe that raises makes
\* health_check return False, adds exactly 1 to failure_count, sets
\* last_failure_time and overwrites the HealthRecord with status unhealthy
\* and the error message; a probe that succeeds makes it return True,
\* applies record_success exactly once and overwrites the HealthRecord with
\* status healthy.
C19_ProbeOutcomeRecorded ==
    [][\A name \in Services, probe_fails \in BOOLEAN :
          (BreakerPermits(name) /\ HealthCheck(name, probe_fails))
          => LET b == can_execute(BreakerOf(circuit_breakers, name), now).cb
             IN  IF probe_fails
                 THEN /\ call'.ret = FALSE
                      /\ circuit_breakers'[name].failure_count =
                             b.failure_count + 1
                      /\ circuit_breakers'[name].last_failure_time = now
                      /\ health_status'[name].status = "unhealthy"
                      /\ health_status'[name].error =
                             "Simulated health check failure"
                      /\ health_status'[name].last_check = now
                 ELSE /\ call'.ret = TRUE
                      /\ circuit_breakers'[name] = record_success(b)
                      /\ health_status'[name].status = "healthy"
                      /\ health_status'[name].last_check = now]_vars

\* A probe raised on a target whose HealthRecord was healthy before, and it
\* was the failure that opened the breaker.
C19_Witness ==
    /\ call.op = "health_check" /\ call.ret = FALSE
    /\ call.doc[1].probed
    /\ health_status[call.arg].status = "unhealthy"
    /\ health_status[call.arg].last_check = now
    /\ circuit_breakers[call.arg].last_failure_time = now
    /\ circuit_breakers[call.arg].state = OPEN
    /\ now > 0

---------------------------------------------------------------------------
(* Claims about the recovery history and the snapshot *)

\* C11 (SpecHist): the in-memory recovery history never holds more than 1000
\* events, and it is always the most recent events appended, in append
\* order: past 1000 it is the oldest events that are evicted.
C11_HistoryBoundedFIFO ==
    /\ Len(recovery_history) <= HistoryLimit
    /\ recovery_history = LastN(log, HistoryLimit)

\* Two auto_recover calls have completed on a full history: 1002 events
\* were appended, 1000 are kept, the newest last.
C11_Witness ==
    /\ call.op = "auto_recover"
    /\ Len(log) = HistoryLimit + 2
    /\ Len(recovery_history) = HistoryLimit
    /\ recovery_history[HistoryLimit] = log[HistoryLimit + 2]
    /\ recovery_history[1] = log[3]

\* C12 (SpecSnap): saving the state and then constructing an orchestrator on
\* the same file gives the same workflow ids with the same records, equal
\* metrics counters, the last min(100, n) events of the history in order,
\* and no circuit breaker and no health record.
C12_SnapshotRoundTrip ==
    [][SaveThenConstruct
          => (/\ DOMAIN workflows' = DOMAIN workflows
              /\ \A id \in DOMAIN workflows : workflows'[id] = workflows[id]
              /\ metrics'.total_workflows = metrics.total_workflows
              /\ metrics'.successful_recoveries = metrics.successful_recoveries
              /\ metrics'.failed_recoveries = metrics.failed_recoveries
              /\ recovery_history' = LastN(recovery_history, SavedHistoryLimit)
              /\ Len(recovery_history') <= SavedHistoryLimit
              /\ circuit_breakers' = << >>
              /\ health_status' = << >>)]_vars

\* An orchestrator was constructed on the snapshot of one that had a started
\* workflow and more than 100 events: it holds the workflow and 100 events.
C12_Witness ==
    /\ call.op = "__init__"
    /\ restarts = 1
    /\ \E id \in DOMAIN workflows : workflows[id].run_count > 0
    /\ Len(recovery_history) = SavedHistoryLimit
    /\ metrics.successful_recoveries > SavedHistoryLimit
    /\ circuit_breakers = << >>

---------------------------------------------------------------------------
(* Claims about graceful_shutdown and the monitor loop *)

\* The k-th graceful_shutdown call ends in this step, by returning or by
\* raising.
ShutdownEnds(k) ==
    /\ k \in 1..Len(shutdowns')
    /\ shutdowns'[k].pc \in {"returned", "raised"}
    /\ (k > Len(shutdowns) \/ shutdowns[k].pc = "gather")

\* The k-th graceful_shutdown call begins in this step.
ShutdownBegins(k) == Len(shutdowns) = k - 1 /\ Len(shutdowns') = k

\* Every workflow of the registry wf has status stopped.
AllStopped(wf) == \A id \in DOMAIN wf : wf[id].status = "stopped"

\* C13 (SpecLife): a graceful_shutdown(reason) call that has run through
\* returns, and when it returns is_running is false, the shutdown event is
\* set, every registered workflow has status stopped and the snapshot
\* persisted last records every workflow as stopped.
C13_ShutdownReturnsStopped ==
    [][\A k \in 1..(Len(shutdowns) + 1) :
          ShutdownEnds(k)
          => (/\ shutdowns'[k].pc = "returned"
              /\ ~is_running'
              /\ shutdown_event'
              /\ AllStopped(workflows')
              /\ state_file' # << >>
              /\ DOMAIN state_file'[1].workflows = DOMAIN workflows'
              /\ AllStopped(state_file'[1].workflows))]_vars

\* C14 (SpecLife): a graceful_shutdown call made after or while an earlier
\* one ends without error, and from its first line to its last it leaves
\* workflows, recovery history, metrics and the two flags as they were, and
\* the persisted workflows, history and metrics as the earlier call
\* saved them.
C14_SecondShutdownNoOp ==
    [][\A k \in 2..(Len(shutdowns) + 1) :
          /\ (ShutdownBegins(k) \/ ShutdownEnds(k))
             => UNCHANGED << workflows, recovery_history, metrics,
                             is_running, shutdown_event >>
          /\ ShutdownEnds(k)
             => (/\ shutdowns'[k].pc = "returned"
                 /\ state_file # << >>
                 /\ state_file'[1].workflows = state_file[1].workflows
                 /\ state_file'[1].recovery_history =
                        state_file[1].recovery_history
                 /\ state_file'[1].metrics = state_file[1].metrics)]_vars

\* C15 (SpecLifeFair): every graceful_shutdown call terminates by returning,
\* whatever the monitor task was doing when it was cancelled, and once
\* start() has been woken by the shutdown event its own graceful_shutdown
\* returns and start() returns.
C15_ShutdownTerminates ==
    /\ [](Len(shutdowns) >= 1
          => <>(Len(shutdowns) >= 1 /\ shutdowns[1].pc = "returned"))
    /\ [](starter = "shutdown" => <>(starter = "returned"))

\* C16 (SpecLifeFair): once the shutdown is signalled the monitor loop makes
\* no further health_check, the clock does not advance while it is in the
\* wait between iterations, and it exits.
C16_MonitorStopsOnSignal ==
    /\ [][shutdown_event => monitor'.checks = monitor.checks]_vars
    /\ [][(shutdown_event /\ monitor.pc = "wait") => now' = now]_vars
    /\ [](shutdown_event => <>(monitor.pc \in {"none", "done", "cancelled"}))

\* The shutdown was signalled during the recovery of the first service: the
\* loop did not check the second service, was woken in wait_for before the
\* interval was over, and exited.
C16_Witness ==
    /\ monitor.pc = "done"
    /\ shutdown_event
    /\ metrics.failed_recoveries = 1
    /\ monitor.checks = 1
    /\ now < monitor.deadline
    /\ monitor.deadline - now > MonitorInterval - StepSeconds

\* C18 (SpecMon): the monitor loop is in auto_recover(target,
\* 'service_crash') only after a health_check of the target that ran the
\* probe and wrote an unhealthy HealthRecord: a health_check refused by the
\* breaker starts no recovery.
C18_RecoveryOnlyAfterFailedProbe ==
    monitor.pc = "sleep"
    => (/\ monitor.probed
        /\ Has(health_status, MonitoredServices[monitor.index])
        /\ health_status[MonitoredServices[monitor.index]].status
              = "unhealthy")

\* C20 (SpecLife): when the monitor task is cancelled while it is suspended
\* in a step of auto_recover, one RecoveryEvent is appended for the attempt,
\* with success False and with the steps executed so far (up to the step
\* before the one interrupted, or up to that step), and failed_recoveries
\* grows by 1.
C20_InterruptedRecoveryRecorded ==
    [][(MonitorCancelled /\ monitor.pc = "sleep")
          => (/\ Len(log') = Len(log) + 1
              /\ recovery_history' # << >>
              /\ recovery_history'[Len(recovery_history')] = log'[Len(log')]
              /\ log'[Len(log')].success = FALSE
              /\ log'[Len(log')].steps_executed
                    \in { SubSeq(monitor.steps, 1, monitor.step - 1),
                          SubSeq(monitor.steps, 1, monitor.step) }
              /\ metrics'.failed_recoveries =
                     metrics.failed_recoveries + 1)]_vars

\* C21 (SpecLife): graceful_shutdown never cancels the monitor task while
\* an auto_recover the monitor started is still in progress: a recovery that
\* has begun runs all of its steps before the task is cancelled.
C21_RecoveryCompletesBeforeCancel ==
    ~(monitor.pc = "sleep" /\ monitor.must_cancel)

\* C22 (SpecConc): with register, start, stop, health_check, auto_recover
\* and get_system_status callers interleaved at the suspension points, no
\* update of run_count is lost (it is the number of start_workflow calls
\* that returned True since the registration), and the recovery counters and
\* the recovery log move together: in every state another task can run in,
\* and in every status document, there are as many events as recoveries
\* counted.
C22_AtomicUpdates ==
    /\ \A id \in DOMAIN workflows : workflows[id].run_count = starts[id]
    /\ metrics.successful_recoveries + metrics.failed_recoveries = Len(log)
    /\ recovery_history = log
    /\ call.op = "get_system_status"
          => (call.doc[1].metrics.successful_recoveries
                 + call.doc[1].metrics.failed_recoveries
              = Len(call.doc[1].recovery_history))

\* A status read while one recovery is suspended in a step and another has
\* completed, on a workflow started twice.
C22_Witness ==
    /\ call.op = "get_system_status"
    /\ Len(recoveries) = 1
    /\ recoveries[1].step > 1
    /\ Len(log) = 1
    /\ call.doc[1].metrics.successful_recoveries = 1
    /\ Len(call.doc[1].recovery_history) = 1
    /\ \E id \in DOMAIN workflows : workflows[id].run_count = 2


\* C23 (SpecMon): a health check of one target never has to wait for the
\* recovery of another: while the monitor loop runs auto_recover for a
\* service, no service later in its list is held back, still to be checked
\* in this iteration.
C23_ChecksDoNotWaitForRecovery ==
    ~(monitor.pc = "sleep" /\ monitor.index < Len(MonitoredServices))

\* C24 (SpecConc): every snapshot written is the snapshot of one in-memory
\* state, the one the orchestrator is in when the write is made: its
\* workflows, its metrics and the last 100 events of its history, whatever
\* other callers are suspended at that moment; and the snapshot agrees with
\* itself, holding as many events as its metrics count recoveries.
C24_SnapshotOfOneState ==
    /\ [][state_file' # state_file
          => (/\ state_file'[1].workflows = workflows'
              /\ state_file'[1].metrics = metrics'
              /\ state_file'[1].recovery_history =
                     LastN(recovery_history', SavedHistoryLimit)
              /\ state_file'[1].saved_at = now')]_vars
    /\ [](state_file # << >>
          => (/\ state_file[1].metrics.successful_recoveries
                    + state_file[1].metrics.failed_recoveries
                 = Len(state_file[1].recovery_history)
              /\ state_file[1].metrics.total_workflows
                    >= Cardinality(DOMAIN state_file[1].workflows)))

\* A re-registration saved the state after one recovery had completed and
\* while another was suspended in a step.
C24_Witness ==
    /\ call.op = "register_workflow"
    /\ state_file # << >>
    /\ state_file[1].metrics.total_workflows = 2
    /\ state_file[1].metrics.successful_recoveries = 1
    /\ Len(state_file[1].recovery_history) = 1
    /\ Len(recoveries) = 1
    /\ recoveries[1].step > 1

---------------------------------------------------------------------------
(* Further claims about the CircuitBreaker, checked under SpecCB *)

\* C25: in every reachable state of a breaker, the state is OPEN if and
\* only if failure_count >= failure_threshold and the open timeout has not
\* yet elapsed since last_failure_time.
C25_OpenIffTrippedAndWaiting ==
    (cb.state = OPEN)
    <=> (/\ cb.failure_count >= cb.failure_threshold
         /\ cb.last_failure_time # NoTime
         /\ now - cb.last_failure_time < cb.timeout)

\* C26: record_success() on an OPEN breaker changes nothing: state,
\* failure_count, last_failure_time and half_open_calls stay as they were.
C26_SuccessInOpenIsNoOp ==
    [][(cb.state = OPEN /\ CBRecordSuccess)
          => (/\ cb'.state = cb.state
              /\ cb'.failure_count = cb.failure_count
              /\ cb'.last_failure_time = cb.last_failure_time
              /\ cb'.half_open_calls = cb.half_open_calls)]_vars

---------------------------------------------------------------------------
(* Claims about persistence failures, checked under SpecPersist *)

\* C27: constructing an orchestrator on a missing or unreadable snapshot
\* file does not raise and gives the empty initial state (no workflow, no
\* event, counters 0); and a snapshot write that fails in register_workflow
\* or in graceful_shutdown raises nothing: the call leaves the in-memory
\* state, and ends, as it does when the write succeeds.
C27_PersistenceFailuresNotFatal ==
    /\ [][(Construct /\ (state_file = << >> \/ state_file[1] = CorruptBlob))
          => (/\ ~call'.doc[1].raised
              /\ workflows' = << >>
              /\ recovery_history' = << >>
              /\ metrics'.total_workflows = 0
              /\ metrics'.successful_recoveries = 0
              /\ metrics'.failed_recoveries = 0)]_vars
    /\ [][\A id \in WorkflowIds, config \in Configs :
             (build.disk # "ok" /\ RegisterWorkflow(id, config))
             => (/\ workflows' = Put(workflows, id, NewWorkflow(config, now))
                 /\ circuit_breakers' =
                        Put(circuit_breakers, id,
                            CircuitBreaker(DefaultFailureThreshold,
                                           DefaultTimeout,
                                           DefaultHalfOpenMaxCalls))
                 /\ metrics' = [metrics EXCEPT !.total_workflows = @ + 1]
                 /\ call' = Call("register_workflow", id, FALSE)
                 /\ UNCHANGED << health_status, recovery_history, is_running,
                                 shutdown_event >>)]_vars
    /\ [][\A name \in {"TEST"} :
             (build.disk # "ok" /\ DirectShutdown(name))
             => (/\ ~is_running'
                 /\ shutdown_event'
                 /\ workflows' = StoppedAll(workflows)
                 /\ shutdowns'[Len(shutdowns')].pc = ShutdownOutcome
                 /\ UNCHANGED << metrics, recovery_history, circuit_breakers,
                                 health_status >>)]_vars

\* An orchestrator registered a workflow and was shut down on a disk
\* where pickle.dump fails; the next one, constructed on the truncated
\* file, is empty.
C27_Witness ==
    /\ call.op = "__init__"
    /\ ~call.doc[1].raised
    /\ state_file = << CorruptBlob >>
    /\ DOMAIN starts # {}
    /\ Len(shutdowns) = 1
    /\ workflows = << >>
    /\ metrics.total_workflows = 0

---------------------------------------------------------------------------
(* Claims about get_system_status, checked under SpecStatus *)

\* C28: get_system_status() reports as recovery_history the last
\* min(10, n) of the n events of the recovery history, in append order, the
\* most recent last; it reports the snapshot of every breaker there is;
\* and it changes nothing of the orchestrator.
C28_StatusReportsLastTen ==
    [][GetSystemStatus
          => LET d == call'.doc[1]
                 n == Len(recovery_history)
                 m == IF n < 10 THEN n ELSE 10
             IN  /\ Len(d.recovery_history) = m
                 /\ \A i \in 1..m :
                       d.recovery_history[i] = recovery_history[n - m + i]
                 /\ m > 0 => d.recovery_history[m] = log[Len(log)]
                 /\ DOMAIN d.circuit_breakers = DOMAIN circuit_breakers
                 /\ \A k \in DOMAIN circuit_breakers :
                       d.circuit_breakers[k] =
                           [ state         |-> circuit_breakers[k].state,
                             failure_count |->
                                 circuit_breakers[k].failure_count,
                             last_failure  |->
                                 circuit_breakers[k].last_failure_time ]
                 /\ UNCHANGED << orchVars, histVars, is_running,
                                 shutdown_event, tasks >>]_vars

\* The status of an orchestrator with eleven events and two breakers, one
\* of them open: ten events are reported, the second to the eleventh.
C28_Witness ==
    /\ call.op = "get_system_status"
    /\ Len(recovery_history) = StatusHistoryLimit + 1
    /\ Len(call.doc[1].recovery_history) = StatusHistoryLimit
    /\ call.doc[1].recovery_history[1] = recovery_history[2]
    /\ call.doc[1].recovery_history[1] # recovery_history[1]
    /\ call.doc[1].recovery_history[StatusHistoryLimit].failure_type
          = "disk_full"
    /\ Cardinality(DOMAIN call.doc[1].circuit_breakers) = 2
    /\ \E k \in DOMAIN call.doc[1].circuit_breakers :
          call.doc[1].circuit_breakers[k].state = OPEN

---------------------------------------------------------------------------
(* Further claims about the registry and the breakers, checked under Spec *)

\* C29: whatever operations are performed, the record of a workflow, once
\* created, stays in the registry, is not reset, and its run_count never
\* decreases.
C29_RunCountNeverDecreases ==
    [][\A id \in DOMAIN workflows :
          /\ Has(workflows', id)
          /\ workflows'[id].run_count >= workflows[id].run_count
          /\ workflows'[id].created_at = workflows[id].created_at]_vars

\* C30: no operation replaces or resets an existing breaker: a breaker that
\* is OPEN with its timeout not elapsed is left as it is by every operation,
\* so that it still refuses start_workflow afterwards, until the timeout
\* has elapsed.
C30_BreakerLivesOn ==
    [][\A id \in DOMAIN circuit_breakers :
          BreakerRefuses(id)
          => (/\ Has(circuit_breakers', id)
              /\ circuit_breakers'[id] = circuit_breakers[id]
              /\ now' = now => ~can_execute(circuit_breakers'[id], now').ret)]_vars

\* C31: from a fresh state, after any sequence of register_workflow calls
\* metrics.total_workflows is the number of workflows in the registry, and
\* it never decreases.
C31_TotalWorkflowsCountsRegistry ==
    /\ [](metrics.total_workflows = Cardinality(DOMAIN workflows))
    /\ [][metrics'.total_workflows >= metrics.total_workflows]_vars

\* C32: a breaker starts CLOSED and its state changes only along
\* CLOSED->OPEN (a record_failure that reaches the threshold),
\* OPEN->HALF_OPEN (a can_execute after the timeout), HALF_OPEN->CLOSED (a
\* record_success that reaches the required count) and HALF_OPEN->OPEN (a
\* record_failure); get_state never changes the breaker.
C32_Edge ==
    \/ /\ cb.state = CLOSED /\ cb'.state = OPEN
       /\ call'.op = "record_failure"
       /\ cb'.failure_count >= cb.failure_threshold
    \/ /\ cb.state = OPEN /\ cb'.state = HALF_OPEN
       /\ call'.op = "can_execute"
       /\ cb.last_failure_time # NoTime
       /\ now - cb.last_failure_time >= cb.timeout
    \/ /\ cb.state = HALF_OPEN /\ cb'.state = CLOSED
       /\ call'.op = "record_success"
       /\ cb.half_open_calls + 1 >= cb.half_open_max_calls
    \/ /\ cb.state = HALF_OPEN /\ cb'.state = OPEN
       /\ call'.op = "record_failure"

C32_TransitionsFollowTheDiagram ==
    /\ cb.state = CLOSED
    /\ [][cb'.state # cb.state => C32_Edge]_vars
    /\ [][CBGetState => cb' = cb]_vars

\* A breaker that tripped, was probed and has been closed by a success,
\* read by get_state.
C32_Witness ==
    /\ call.op = "get_state"
    /\ cb.state = CLOSED
    /\ run.n > 0
    /\ call.doc[1].state = CLOSED

\* C33: can_execute() on an OPEN breaker compares the full elapsed time d
\* since last_failure_time with the timeout: for every d in whole seconds,
\* a day and longer included, it returns true and moves to HALF_OPEN when
\* d >= timeout, and returns false and changes nothing otherwise.
C33_FullElapsedTime ==
    [][(/\ cb.state = OPEN
        /\ cb.last_failure_time # NoTime
        /\ CBCanExecute)
       => IF now - cb.last_failure_time >= cb.timeout
          THEN call'.ret = TRUE /\ cb'.state = HALF_OPEN
          ELSE call'.ret = FALSE /\ cb' = cb]_vars

\* The monitor loop can still begin the iterations it takes to find the
\* timeout of an OPEN breaker elapsed: one check per MonitorInterval or more.
C34_RoundsToProbe == DefaultTimeout \div MonitorInterval + 1

C34_Breaker(s) == BreakerOf(circuit_breakers, s)

C35_EmbeddedSnapshotIsLive ==
    [][\A name \in Services, probe_fails \in BOOLEAN :
          (HealthCheck(name, probe_fails) /\ call'.doc[1].probed)
          => /\ Has(health_status', name)
             /\ health_status'[name].circuit_breaker
                    = get_state(circuit_breakers'[name])]_vars

\* C36: in every state reachable through the orchestrator API, a target
\* whose circuit breaker is OPEN has a HealthRecord with status unhealthy:
\* no target is shown healthy while its breaker is OPEN.
C36_OpenMeansUnhealthy ==
    \A t \in DOMAIN circuit_breakers :
        circuit_breakers[t].state = OPEN
        => /\ Has(health_status, t)
           /\ health_status[t].status = "unhealthy"

\* A health_check refused by the OPEN breaker of a registered workflow.
C36_Witness ==
    /\ call.op = "health_check"
    /\ ~call.doc[1].probed
    /\ Has(workflows, call.arg)
    /\ Has(circuit_breakers, call.arg)
    /\ circuit_breakers[call.arg].state = OPEN
    /\ health_status[call.arg].status = "unhealthy"

\* C37: after any sequence of record_success, record_failure and can_execute
\* calls, failure_count >= 0 and half_open_calls >= 0; a CLOSED breaker has
\* failure_count < failure_threshold and half_open_calls = 0; a HALF_OPEN
\* breaker has half_open_calls < half_open_max_calls; a breaker that is not
\* CLOSED has last_failure_time set.
C37_CounterInvariants ==
    /\ cb.failure_count >= 0
    /\ cb.half_open_calls >= 0
    /\ cb.state = CLOSED
          => cb.failure_count < cb.failure_threshold /\ cb.half_open_calls = 0
    /\ cb.state = HALF_OPEN => cb.half_open_calls < cb.half_open_max_calls
    /\ cb.state # CLOSED => cb.last_failure_time # NoTime

\* A HALF_OPEN breaker one success short of closing, after a success.
C37_Witness ==
    /\ call.op = "record_success"
    /\ cb.state = HALF_OPEN
    /\ cb.half_open_calls = cb.half_open_max_calls - 1
    /\ cb.half_open_calls > 0
    /\ cb.failure_count >= cb.failure_threshold

\* Some graceful_shutdown call has persisted its final snapshot.
C38_ShutdownSaved ==
    \E k \in 1..Len(shutdowns) : shutdowns[k].pc \in {"returned", "raised"}

\* C38: once graceful_shutdown has set the not-running flag, no workflow is
\* left in status running or initialized by a start_workflow or
\* register_workflow call that interleaves with the shutdown or follows it,
\* and the snapshot persisted by the shutdown holds only stopped workflows.
C38_NothingRunsAfterShutdown ==
    ~is_running
    => /\ AllStopped(workflows)
       /\ (C38_ShutdownSaved /\ state_file # << >>)
             => AllStopped(state_file[1].workflows)

---------------------------------------------------------------------------
(* Claims about the revenue engine, checked under SpecEngine *)

C40_ShutdownNeverWaits ==
    /\ webhook_queue.items = 0
    /\ webhook_queue.unfinished = 0
    /\ engine_shutdown \in {"idle", "done"}

\* graceful_shutdown has returned while the listener, which has handled a
\* webhook, is still asleep and the stream task is in a retry.
C40_Witness ==
    /\ engine_shutdown = "done"
    /\ listener.pc = "sleep"
    /\ listener.handled >= 1
    /\ stream_task.pc = "backoff"

===========================================================================
